---- MODULE Spec2Model ----
(***************************************************************************)
(* A model of svxlink's TetraLogic (src/svxlink/svxlink/TetraLogic.cpp):   *)
(* the PEI stream framer, the response classifier and dispatcher, the SDS  *)
(* queue with its single-slot send latch, and the TSI address codec.       *)
(*                                                                         *)
(* A std::string is modelled as a sequence of one-character strings, so    *)
(* that substr, erase, find, atoi and sprintf are computed as the code     *)
(* computes them.                                                          *)
(***************************************************************************)
EXTENDS Integers, Sequences, FiniteSets, TLC

(***************************************************************************)
(* Strings                                                                 *)
(***************************************************************************)
Digits == {"0", "1", "2", "3", "4", "5", "6", "7", "8", "9"}

DigitVal(c) ==
  CASE c = "0" -> 0 [] c = "1" -> 1 [] c = "2" -> 2 [] c = "3" -> 3
    [] c = "4" -> 4 [] c = "5" -> 5 [] c = "6" -> 6 [] c = "7" -> 7
    [] c = "8" -> 8 [] c = "9" -> 9

DigitChar(n) ==
  CASE n = 0 -> "0" [] n = 1 -> "1" [] n = 2 -> "2" [] n = 3 -> "3"
    [] n = 4 -> "4" [] n = 5 -> "5" [] n = 6 -> "6" [] n = 7 -> "7"
    [] n = 8 -> "8" [] n = 9 -> "9"

Min(a, b) == IF a < b THEN a ELSE b

\* std::string::substr(pos, n): pos is 0-based and the count is clipped.
SubStr(s, pos, n) == SubSeq(s, pos + 1, Min(Len(s), pos + n))

\* std::string::erase(pos, n)
Erase(s, pos, n) == SubSeq(s, 1, pos) \o SubSeq(s, pos + n + 1, Len(s))

IsDigits(s) == \A i \in 1..Len(s) : s[i] \in Digits

RECURSIVE atoiAcc(_, _, _)
atoiAcc(s, i, acc) ==
  IF i > Len(s) \/ s[i] \notin Digits THEN acc
  ELSE atoiAcc(s, i + 1, acc * 10 + DigitVal(s[i]))

RECURSIVE SkipBlanks(_, _)
SkipBlanks(s, i) == IF i <= Len(s) /\ s[i] = " " THEN SkipBlanks(s, i + 1) ELSE i

\* atoi: leading blanks, an optional sign, then the longest run of digits.
atoi(s) ==
  LET i == SkipBlanks(s, 1) IN
    IF i <= Len(s) /\ s[i] = "-" THEN 0 - atoiAcc(s, i + 1, 0)
    ELSE IF i <= Len(s) /\ s[i] = "+" THEN atoiAcc(s, i + 1, 0)
    ELSE atoiAcc(s, i, 0)

RECURSIVE DecStr(_)
DecStr(n) == IF n < 10 THEN <<DigitChar(n)>> ELSE DecStr(n \div 10) \o <<DigitChar(n % 10)>>

RECURSIVE ZeroPad(_, _)
ZeroPad(s, w) == IF Len(s) >= w THEN s ELSE ZeroPad(<<"0">> \o s, w)

\* sprintf("%0<w>d", n) for n >= 0: at least w digits, never truncated.
Fmt0d(n, w) == ZeroPad(DecStr(n), w)

(***************************************************************************)
(* Address codec                                                           *)
(***************************************************************************)
\* initialize(): MCC shorter than 4 characters is left-padded with zeros.
PadMcc(cfgMcc) ==
  IF Len(cfgMcc) < 4
  THEN LET value == <<"0", "0", "0", "0">> \o cfgMcc IN SubStr(value, Len(value) - 4, 4)
  ELSE cfgMcc

\* initialize(): the branch taken for an MNC shorter than 5 characters pads
\* and assigns mcc, not mnc.
MccAfterMnc(mcc4, cfgMnc) ==
  IF Len(cfgMnc) < 5
  THEN LET value == <<"0", "0", "0", "0", "0">> \o mcc4 IN SubStr(value, Len(value) - 5, 5)
  ELSE mcc4

initializeMcc(cfgMcc, cfgMnc) == MccAfterMnc(PadMcc(cfgMcc), cfgMnc)

initializeMnc(cfgMnc) == cfgMnc

\* The size of getTSI's local buffer, char is[18].
TsiBufSize == 18

\* getTSI, short form: len < 9.
getTSIShort(issi, mcc, mnc) == mcc \o mnc \o Fmt0d(atoi(issi), 8)

\* getTSI, long form.  len is the length of the argument as passed in and is
\* not recomputed after the country code has been erased.
getTSILong(issi) ==
  LET len   == Len(issi)
      four  == SubStr(issi, 0, 1) = <<"0">>
      t_mcc == IF four THEN atoi(SubStr(issi, 0, 4)) ELSE atoi(SubStr(issi, 0, 3))
      rest  == IF four THEN Erase(issi, 0, 4) ELSE Erase(issi, 0, 3)
      t_issi == SubStr(rest, len - 8, 8)
      net   == Erase(rest, len - 8, 8)
  IN Fmt0d(t_mcc, 4) \o Fmt0d(atoi(net), 5) \o t_issi

getTSI(issi, mcc, mnc) ==
  IF Len(issi) < 9 THEN getTSIShort(issi, mcc, mnc) ELSE getTSILong(issi)

\* sprintf writes the text and a terminating NUL into is[18].
getTSIOverflows(issi) ==
  IF Len(issi) < 9 THEN Len(Fmt0d(atoi(issi), 8)) + 1 > TsiBufSize
  ELSE Len(getTSILong(issi)) + 1 > TsiBufSize


(***************************************************************************)
(* Names of the response kinds (the #define table), of the PEI request     *)
(* phases and of the Sds fields' values.                                   *)
(***************************************************************************)
OK == "OK"
ERROR == "ERROR"
CALL_BEGIN == "CALL_BEGIN"
SDS == "SDS"
TEXT_SDS == "TEXT_SDS"
CNUMF == "CNUMF"
CALL_CONNECT == "CALL_CONNECT"
TRANSMISSION_END == "TRANSMISSION_END"
CALL_RELEASED == "CALL_RELEASED"
LIP_SDS == "LIP_SDS"
REGISTER_TSI == "REGISTER_TSI"
STATE_SDS == "STATE_SDS"
OP_MODE == "OP_MODE"
TRANSMISSION_GRANT == "TRANSMISSION_GRANT"
TX_DEMAND == "TX_DEMAND"
TX_WAIT == "TX_WAIT"
TX_INTERRUPT == "TX_INTERRUPT"
SIMPLE_LIP_SDS == "SIMPLE_LIP_SDS"
COMPLEX_SDS == "COMPLEX_SDS"
MS_CNUM == "MS_CNUM"
WAP_PROTOCOL == "WAP_PROTOCOL"
SIMPLE_TEXT_SDS == "SIMPLE_TEXT_SDS"
ACK_SDS == "ACK_SDS"
CMGS == "CMGS"
CONCAT_SDS == "CONCAT_SDS"
CTGS == "CTGS"
CTDGR == "CTDGR"
CLVL == "CLVL"
INVALID == "INVALID"
TIMEOUT == "TIMEOUT"

DMO_OFF == 7
DMO_ON == 8

AT_CMD_WAIT == "AT_CMD_WAIT"
INIT == "INIT"
INIT_COMPLETE == "INIT_COMPLETE"
CHECK_AT == "CHECK_AT"

OUTGOING == "OUTGOING"
INCOMING == "INCOMING"
TEXT == "TEXT"
RAW == "RAW"
\* The type of an Sds whose type field was never assigned.
UNSET == "UNSET"

\* +CMGS status values: 4 - ok, 5 - failed.
SDS_SEND_OK == 4
SDS_SEND_FAILED == 5

\* checkSds: the age, in seconds, tested before an entry is deleted.
SdsMaxAge == 3600

\* handleCallBegin: the shortest +CTICN line that is parsed.
MinCticnLen == 65

CR == "\r"
LF == "\n"
CRLF == <<CR, LF>>

(***************************************************************************)
(* State                                                                   *)
(***************************************************************************)
VARIABLES
  mcc, mnc, issi,          \* configured identity, as left by initialize()
  peistate,                \* link health: OK, ERROR, TIMEOUT
  peirequest,              \* initialization phase
  m_cmds,                  \* setup commands not yet sent
  peistream,               \* bytes received and not yet framed
  cmgs_received,           \* FALSE while a +CMGS report is awaited
  new_sds,                 \* result of the drain run by the last queueSds
  inTransmission,
  talkgroup_up,
  sqlOpen,                 \* tetra_modem_sql->isOpen()
  txOn,                    \* tx().isTransmitting()
  sdsQueue,                \* std::map<int, Sds>
  pending_sds,             \* copy of the entry last sent
  last_sdsinstance,        \* instance id of the last +CMGS report
  userdata,                \* std::map<std::string, User>
  callinfo,                \* std::map<int, Callinfo>
  fromtsi,                 \* pSDS.fromtsi
  Qso,                     \* [tsi, members]
  comTimer, breakTimer,    \* peiComTimer / peiBreakCommandTimer enabled
  now,                     \* time(NULL)
  \* What the last event did (observations, reset by every event):
  lastEvent,               \* name of the handler that ran
  g_sent,                  \* commands written to the PEI, in order
  g_handed,                \* lines handed to handlePeiAnswer, in order
  g_events,                \* events passed to processEvent, in order
  g_drains,                \* cmgs_received as read at each entry of checkSds
  g_gate,                  \* what checkSds read when it transmitted
  g_cmgs,                  \* per +CMGS report: matched the pending entry, status
  g_pendingKey,            \* queue key of the entry last sent (0: none)
  g_inflight,              \* SDS commands sent since the last +CMGS report
  g_peak,                  \* the largest value g_inflight has had
  g_txcount,               \* queue key -> SDS commands sent for that entry
  g_setups,                \* call setups sent since the last +CTCR report
  g_welcomes,              \* targets of the new-user welcome SDS, in order
  g_info,                  \* info SDS enqueued: recipient and time, in order
  g_input,                 \* the record handed to the last injection
  g_released,              \* what handleCallReleased read: squelch, code
  g_init,                  \* setup commands sent: the command, answered since the one before
  g_answered,              \* an OK or ERROR was processed since the last setup command
  g_finished,              \* what initPei read when it emitted pei_init_finished
  g_published,             \* user directories passed to publishInfo
  g_queued,                \* queueSds calls of the last event: the key chosen, and whether it was taken
  \* The address codec applied to an input (specification SpecTsi):
  tsiCfg, tsiIn, tsiOnce, tsiTwice, tsiPc,
  \* The byte stream offered to the framer (specification SpecFramer):
  wire, wireLines, wireCuts,
  \* A response line written by the radio and not yet read (SpecLive):
  inbox,
  \* The classifier applied to a line (specification SpecClassify):
  clsIn, clsOut, clsPc

sessVars ==
  <<mcc, mnc, issi, peistate, peirequest, m_cmds, peistream, cmgs_received,
    new_sds, inTransmission, talkgroup_up, sqlOpen, txOn, sdsQueue,
    pending_sds, last_sdsinstance, userdata, callinfo, fromtsi, Qso,
    comTimer, breakTimer, now, lastEvent, g_sent, g_handed, g_events,
    g_drains, g_gate, g_cmgs, g_pendingKey, g_inflight, g_peak, g_txcount,
    g_setups, g_welcomes, g_info, g_input, g_released,
    g_init,
    g_answered,
    g_finished,
    g_published,
    g_queued>>

tsiVars == <<tsiCfg, tsiIn, tsiOnce, tsiTwice, tsiPc>>

framerVars == <<wire, wireLines, wireCuts>>

linkVars == <<inbox>>

clsVars == <<clsIn, clsOut, clsPc>>

vars == <<sessVars, tsiVars, framerVars, linkVars, clsVars>>

\* The session as one record, on which the handlers are written as functions.
\* ret carries the return value of the last call of checkSds.
Cur ==
  [mcc |-> mcc, mnc |-> mnc, issi |-> issi, peistate |-> peistate,
   peirequest |-> peirequest, m_cmds |-> m_cmds, peistream |-> peistream,
   cmgs_received |-> cmgs_received, new_sds |-> new_sds,
   inTransmission |-> inTransmission, talkgroup_up |-> talkgroup_up,
   sqlOpen |-> sqlOpen, txOn |-> txOn, sdsQueue |-> sdsQueue,
   pending_sds |-> pending_sds, last_sdsinstance |-> last_sdsinstance,
   userdata |-> userdata, callinfo |-> callinfo, fromtsi |-> fromtsi,
   Qso |-> Qso, comTimer |-> comTimer, breakTimer |-> breakTimer,
   now |-> now, g_sent |-> <<>>, g_handed |-> <<>>, g_events |-> <<>>,
   g_drains |-> <<>>, g_gate |-> <<>>, g_cmgs |-> <<>>,
   g_pendingKey |-> g_pendingKey, g_inflight |-> g_inflight,
   g_peak |-> g_peak, g_txcount |-> g_txcount, g_setups |-> g_setups,
   g_welcomes |-> g_welcomes, g_info |-> g_info, g_input |-> <<>>,
   g_released |-> <<>>, g_init |-> g_init,
   g_answered |-> g_answered,
   g_finished |-> g_finished,
   g_published |-> <<>>,
   g_queued |-> <<>>,
   ret |-> FALSE]

Commit(s, event) ==
  /\ mcc' = s.mcc /\ mnc' = s.mnc /\ issi' = s.issi
  /\ peistate' = s.peistate /\ peirequest' = s.peirequest
  /\ m_cmds' = s.m_cmds /\ peistream' = s.peistream
  /\ cmgs_received' = s.cmgs_received /\ new_sds' = s.new_sds
  /\ inTransmission' = s.inTransmission /\ talkgroup_up' = s.talkgroup_up
  /\ sqlOpen' = s.sqlOpen /\ txOn' = s.txOn /\ sdsQueue' = s.sdsQueue
  /\ pending_sds' = s.pending_sds /\ last_sdsinstance' = s.last_sdsinstance
  /\ userdata' = s.userdata /\ callinfo' = s.callinfo /\ fromtsi' = s.fromtsi
  /\ Qso' = s.Qso /\ comTimer' = s.comTimer /\ breakTimer' = s.breakTimer
  /\ now' = s.now /\ lastEvent' = event
  /\ g_sent' = s.g_sent /\ g_handed' = s.g_handed /\ g_events' = s.g_events
  /\ g_drains' = s.g_drains /\ g_gate' = s.g_gate /\ g_cmgs' = s.g_cmgs
  /\ g_pendingKey' = s.g_pendingKey /\ g_inflight' = s.g_inflight
  /\ g_peak' = s.g_peak /\ g_txcount' = s.g_txcount /\ g_setups' = s.g_setups
  /\ g_welcomes' = s.g_welcomes /\ g_info' = s.g_info
  /\ g_input' = s.g_input /\ g_released' = s.g_released
  /\ g_init' = s.g_init
  /\ g_answered' = s.g_answered
  /\ g_finished' = s.g_finished
  /\ g_published' = s.g_published
  /\ g_queued' = s.g_queued

(***************************************************************************)
(* Helpers of TetraLib.h used by the handlers                              *)
(***************************************************************************)
RECURSIVE FindFrom(_, _, _)
FindFrom(s, pat, i) ==
  IF i + Len(pat) - 1 > Len(s) THEN 0
  ELSE IF SubSeq(s, i, i + Len(pat) - 1) = pat THEN i
  ELSE FindFrom(s, pat, i + 1)

\* std::string::find: the 1-based index of the first occurrence, 0 for npos.
Find(s, pat) == FindFrom(s, pat, 1)

HasPrefix(s, pat) == Len(s) >= Len(pat) /\ SubSeq(s, 1, Len(pat)) = pat

\* getNextStr(h): the text before the first comma, and h with that text and
\* the comma erased.
getNextStr(h) ==
  LET f == Find(h, <<",">>) IN
    IF f = 0 THEN <<h, <<>>>> ELSE <<SubSeq(h, 1, f - 1), SubSeq(h, f + 1, Len(h))>>

getNextVal(h) == <<atoi(getNextStr(h)[1]), getNextStr(h)[2]>>

RECURSIVE DropFields(_, _)
DropFields(h, n) == IF n = 0 THEN h ELSE DropFields(getNextStr(h)[2], n - 1)

\* The n-th text returned by successive calls of getNextStr on h.
Field(h, n) == getNextStr(DropFields(h, n - 1))[1]

HexDigits == Digits \cup {"A", "B", "C", "D", "E", "F"}

HexVal(c) ==
  CASE c \in Digits -> DigitVal(c)
    [] c = "A" -> 10 [] c = "B" -> 11 [] c = "C" -> 12
    [] c = "D" -> 13 [] c = "E" -> 14 [] c = "F" -> 15

RECURSIVE hex2intAcc(_, _, _)
hex2intAcc(s, i, acc) ==
  IF i > Len(s) \/ s[i] \notin HexDigits THEN acc
  ELSE hex2intAcc(s, i + 1, acc * 16 + HexVal(s[i]))

hex2int(s) == hex2intAcc(s, 1, 0)

difftime(t1, t0) == t1 - t0

MinOf(S) == CHOOSE x \in S : \A y \in S : x <= y

(***************************************************************************)
(* Records                                                                 *)
(***************************************************************************)
\* A default-constructed Sds.
NewSds ==
  [tsi |-> <<>>, message |-> <<>>, remark |-> "", type |-> UNSET,
   direction |-> UNSET, tos |-> 0, nroftries |-> 0]

\* mktime of an all-zero struct tm: a date far in the past (the year 1899),
\* here on the model's clock, whose origin is shortly before the start.
mktimeZero == 0 - 1000000000

\* The time_t value 0 (the year 1970) on the model's clock.
EpochTime == 0 - 900000000

\* A value-initialized User, as std::map::operator[] inserts it.
NewUser ==
  [issi |-> <<>>, call |-> "", name |-> "", sent_last_sds |-> EpochTime,
   pos |-> 0, reasonforsending |-> 0, state |-> 0]

EmptyMap == [k \in {} |-> 0]

MapPut(m, k, v) == [x \in DOMAIN m \cup {k} |-> IF x = k THEN v ELSE m[x]]

\* std::map::operator[]: a missing key is inserted with a default value.
MapTouch(m, k, dflt) == IF k \in DOMAIN m THEN m ELSE MapPut(m, k, dflt)

Command(c, a) == [cmd |-> c, arg |-> a]

(***************************************************************************)
(* sendPei, squelchOpen, processEvent                                      *)
(***************************************************************************)
sendPei(s, cmd) == [s EXCEPT !.g_sent = Append(@, cmd), !.comTimer = TRUE]

\* processEvent(text): the event name, followed by its arguments if the
\* text carries any.
processEventArgs(s, ev, args) == [s EXCEPT !.g_events = Append(@, <<ev>> \o args)]

processEvent(s, ev) == processEventArgs(s, ev, <<>>)

squelchOpen(s, is_open) == IF s.txOn THEN s ELSE [s EXCEPT !.sqlOpen = is_open]

(***************************************************************************)
(* The SDS queue: checkSds and queueSds                                    *)
(***************************************************************************)
\* A drain that does not look at the latch.
LatchIgnored(s) == FALSE

\* if (!cmgs_received) return true;
LatchOutstanding(s) == ~s.cmgs_received

\* it->second.tos != 0 && difftime(it->second.tos, time(NULL)) > 3600
SdsExpired(e, t) == e.tos # 0 /\ difftime(e.tos, t) > SdsMaxAge

\* it->second.tos == 0 && it->second.direction == OUTGOING
SdsUnsent(e) == e.tos = 0 /\ e.direction = OUTGOING

\* A gate that does not ask the squelch.
SendGateNoSquelch(s) == s.peistate = OK /\ ~s.inTransmission

\* peistate == OK && !inTransmission && !tetra_modem_sql->isOpen()
SendGateOpen(s) == s.peistate = OK /\ ~s.inTransmission /\ ~s.sqlOpen

\* createCfmSDS for an ACK_SDS, createSDS otherwise; a type that was never
\* assigned may compare either way.
SdsCommand(type) ==
  IF type = ACK_SDS THEN "CFMSDS" ELSE IF type = UNSET THEN "SDS|CFMSDS" ELSE "SDS"

IsSdsCommand(c) == c.cmd \in {"SDS", "CFMSDS", "SDS|CFMSDS"}

\* The entry as checkSds leaves it when it transmits it.
SentEntry(e, t) == [e EXCEPT !.nroftries = @ + 1, !.tos = t]

\* The entry as checkSds leaves it when the send is deferred.
DeferredEntry(e) == [e EXCEPT !.nroftries = @ + 1]

\* A scan that stops at the unsent entry with the greatest key.
LastUnsent(q) ==
  CHOOSE k \in DOMAIN q : SdsUnsent(q[k]) /\ \A j \in DOMAIN q : SdsUnsent(q[j]) => j <= k

\* The entry at which the loop over sdsQueue stops: std::map iterates in the
\* order of the keys, so it is the unsent entry with the least key.
FirstUnsent(q) == MinOf({k \in DOMAIN q : SdsUnsent(q[k])})

\* SDS commands written so far for the entry stored under key.
TxCount(counts, key) == IF key \in DOMAIN counts THEN counts[key] ELSE 0

checkSds(s) ==
  LET s0 == [s EXCEPT !.g_drains = Append(@, s.cmgs_received)] IN
  IF LatchOutstanding(s) THEN [s0 EXCEPT !.ret = TRUE]
  ELSE
    LET q == s.sdsQueue
        unsent == {k \in DOMAIN q : SdsUnsent(q[k])}
        found == unsent # {}
        first == FirstUnsent(q)
        \* the loop ends (break) at the first unsent entry
        scanned == IF found THEN {k \in DOMAIN q : k <= first} ELSE DOMAIN q
        todelete == {k \in scanned : SdsExpired(q[k], s.now)}
        go == found /\ SendGateOpen(s)
        q1 == IF ~found THEN q
              ELSE [q EXCEPT ![first] =
                      IF go THEN SentEntry(q[first], s.now) ELSE DeferredEntry(q[first])]
        q2 == [k \in DOMAIN q1 \ todelete |-> q1[k]]
        retsds == IF go THEN TRUE
                  ELSE IF found THEN \E k \in DOMAIN q : k < first
                  ELSE DOMAIN q # {}
        sentNow == IF go THEN MapPut(s.g_txcount, first, TxCount(s.g_txcount, first) + 1)
                   ELSE s.g_txcount
        s1 == [s0 EXCEPT !.sdsQueue = q2, !.ret = retsds,
                         !.g_txcount = [k \in DOMAIN sentNow \cap DOMAIN q2 |-> sentNow[k]]]
    IN IF go
       THEN sendPei([s1 EXCEPT !.cmgs_received = FALSE,
                               !.pending_sds = q1[first],
                               !.g_pendingKey = first,
                               !.g_inflight = @ + 1,
                               !.g_peak = IF s.g_inflight + 1 > @
                                          THEN s.g_inflight + 1 ELSE @,
                               !.g_gate = Append(@, [peistate |-> s.peistate,
                                                     inTransmission |-> s.inTransmission,
                                                     sqlOpen |-> s.sqlOpen,
                                                     cmgs_received |-> s.cmgs_received])],
                    Command(SdsCommand(q[first].type), first))
       ELSE s1

\* int s = sdsQueue.size() + 1; std::map::insert keeps an entry already
\* stored under the key.
queueSds(s, t_sds) ==
  LET q == s.sdsQueue
      key == Cardinality(DOMAIN q) + 1
      q1 == IF key \in DOMAIN q THEN q ELSE MapPut(q, key, [t_sds EXCEPT !.tos = 0])
      s1 == checkSds([s EXCEPT !.sdsQueue = q1,
                               !.g_queued = Append(@, [key |-> key,
                                                       taken |-> key \in DOMAIN q])])
  IN [s1 EXCEPT !.new_sds = s1.ret]

(***************************************************************************)
(* handleCmgs                                                              *)
(***************************************************************************)
\* last_sdsinstance == sds_inst
CmgsMatches(s, sds_inst) == s.last_sdsinstance = sds_inst

\* pending_sds.tos = 0: the copy taken by checkSds is changed, the entry in
\* sdsQueue is not.
CmgsFailed(s) == [s EXCEPT !.pending_sds.tos = 0]

\* A report that releases the latch only in the branch of a matching
\* SDS_SEND_OK.
CmgsLatchOnSuccess(s, matched, state) ==
  s.cmgs_received \/ (matched /\ state = SDS_SEND_OK)

\* cmgs_received after the report: set for a matching SDS_SEND_OK and then
\* set unconditionally.
CmgsLatch(s, matched, state) == TRUE

handleCmgs(s, m_message) ==
  LET m == IF Find(m_message, <<"+", "C", "M", "G", "S", ":", " ">>) # 0
           THEN Erase(m_message, 0, 7) ELSE m_message
      sds_inst == getNextVal(m)[1]
      state == getNextVal(DropFields(m, 1))[1]
      matched == CmgsMatches(s, sds_inst)
      s1 == IF matched /\ state = SDS_SEND_FAILED THEN CmgsFailed(s) ELSE s
      s2 == [s1 EXCEPT !.cmgs_received = CmgsLatch(s, matched, state),
                       !.last_sdsinstance = sds_inst,
                       !.g_inflight = 0,
                       !.g_cmgs = Append(@, [matched |-> matched, state |-> state,
                                             key |-> s.g_pendingKey,
                                             outstanding |-> ~s.cmgs_received])]
  IN checkSds(s2)

(***************************************************************************)
(* handleMessage: the classifier                                           *)
(***************************************************************************)
\* The table mre in the order in which std::map<std::string, int> iterates
\* it, that is by the bytes of the pattern text: "^0..." < "^8..." < "^O..."
\* < "^[..." < "^\+...".  form "prefix" is a pattern ^text; "lip" is
\* ^0A[0-9A-F]{20}; "state" is ^[8-9A-F][0-9A-F]{3}$; "ctom" is
\* ^\+CTOM: [0-9]$.
mre ==
  << [form |-> "prefix", pat |-> <<"0", "2">>, kind |-> SIMPLE_TEXT_SDS],
     [form |-> "prefix", pat |-> <<"0", "3">>, kind |-> SIMPLE_LIP_SDS],
     [form |-> "prefix", pat |-> <<"0", "4">>, kind |-> WAP_PROTOCOL],
     [form |-> "lip", pat |-> <<"0", "A">>, kind |-> LIP_SDS],
     [form |-> "prefix", pat |-> <<"0", "C">>, kind |-> CONCAT_SDS],
     [form |-> "prefix", pat |-> <<"8", "2", "0", "4">>, kind |-> TEXT_SDS],
     [form |-> "prefix", pat |-> <<"8", "2", "1", "0", "0", "0">>, kind |-> ACK_SDS],
     [form |-> "prefix", pat |-> <<"O", "K">>, kind |-> OK],
     [form |-> "state", pat |-> <<>>, kind |-> STATE_SDS],
     [form |-> "prefix", pat |-> <<"+", "C", "D", "T", "X", "C", ":">>, kind |-> TRANSMISSION_END],
     [form |-> "prefix", pat |-> <<"+", "C", "L", "V", "L", ":">>, kind |-> CLVL],
     [form |-> "prefix", pat |-> <<"+", "C", "M", "E", " ", "E", "R", "R", "O", "R">>, kind |-> ERROR],
     [form |-> "prefix", pat |-> <<"+", "C", "M", "G", "S", ":">>, kind |-> CMGS],
     [form |-> "prefix", pat |-> <<"+", "C", "N", "U", "M", ":">>, kind |-> MS_CNUM],
     [form |-> "prefix", pat |-> <<"+", "C", "N", "U", "M", "F", ":">>, kind |-> CNUMF],
     [form |-> "prefix", pat |-> <<"+", "C", "T", "C", "C", ":">>, kind |-> CALL_CONNECT],
     [form |-> "prefix", pat |-> <<"+", "C", "T", "C", "R", ":">>, kind |-> CALL_RELEASED],
     [form |-> "prefix", pat |-> <<"+", "C", "T", "D", "G", "R", ":">>, kind |-> CTDGR],
     [form |-> "prefix", pat |-> <<"+", "C", "T", "G", "S", ":">>, kind |-> CTGS],
     [form |-> "prefix", pat |-> <<"+", "C", "T", "I", "C", "N", ":">>, kind |-> CALL_BEGIN],
     [form |-> "ctom", pat |-> <<"+", "C", "T", "O", "M", ":", " ">>, kind |-> OP_MODE],
     [form |-> "prefix", pat |-> <<"+", "C", "T", "S", "D", "S", "R", ":">>, kind |-> SDS],
     [form |-> "prefix", pat |-> <<"+", "C", "T", "X", "D", ":">>, kind |-> TX_DEMAND],
     [form |-> "prefix", pat |-> <<"+", "C", "T", "X", "G", ":">>, kind |-> TRANSMISSION_GRANT],
     [form |-> "prefix", pat |-> <<"+", "C", "T", "X", "I", ":">>, kind |-> TX_INTERRUPT],
     [form |-> "prefix", pat |-> <<"+", "C", "T", "X", "W", ":">>, kind |-> TX_WAIT] >>

AllHex(s) == \A i \in 1..Len(s) : s[i] \in HexDigits

rmatch(tok, e) ==
  CASE e.form = "prefix" -> HasPrefix(tok, e.pat)
    [] e.form = "lip" ->
         HasPrefix(tok, e.pat) /\ Len(tok) >= 22 /\ AllHex(SubSeq(tok, 3, 22))
    [] e.form = "state" ->
         Len(tok) = 4 /\ tok[1] \in (HexDigits \ {"0", "1", "2", "3", "4", "5", "6", "7"})
                      /\ AllHex(SubSeq(tok, 2, 4))
    [] e.form = "ctom" ->
         Len(tok) = Len(e.pat) + 1 /\ HasPrefix(tok, e.pat) /\ tok[Len(tok)] \in Digits

Matching(mesg) == {i \in 1..Len(mre) : rmatch(mesg, mre[i])}

\* The kind of the first matching pattern, else the current link health.
handleMessage(mesg, s) ==
  IF Matching(mesg) = {} THEN s.peistate ELSE mre[MinOf(Matching(mesg))].kind

(***************************************************************************)
(* Configuration read by initialize() that the handlers use                *)
(***************************************************************************)
infosds == <<"W", "e", "l", "c", "o", "m", "e">>

\* SDS_ON_USERACTIVITY: reason for sending -> message
sds_on_activity == [r \in {DMO_ON} |-> <<"H", "i">>]

\* SDS_TO_OTHERS_ON_ACTIVITY
sds_when_dmo_on == TRUE
sds_when_dmo_off == TRUE
sds_when_proximity == FALSE

time_between_sds == 3600

proximity_warning == 3

gssi == 1

(***************************************************************************)
(* Call handling                                                           *)
(***************************************************************************)
\* substr(pos, n) throws std::out_of_range when pos is beyond the end.
SubStrThrows(str, pos) == pos > Len(str)

handleCallBeginThrows(message) ==
  LET h == Erase(message, 0, 8)
      o_tsi == Field(h, 5)
      d_tsi == Field(h, 12)
  IN Len(message) >= MinCticnLen
     /\ (SubStrThrows(o_tsi, 9) \/ SubStrThrows(d_tsi, 9))

\* The key under which handleCallBegin looks the caller up and stores it.
CallBeginKey(o_tsi) == o_tsi

\* A lookup that finds nobody.
UserNeverFound(s, key) == TRUE

\* userdata.find(key) == userdata.end()
UserUnknown(s, key) == key \notin DOMAIN s.userdata

\* The default entry stored for a subscriber seen for the first time.
Placeholder == [NewUser EXCEPT !.call = "NoCall", !.name = "NoName"]

\* The SDS queued for a subscriber seen for the first time.
WelcomeSds(key) ==
  [NewSds EXCEPT !.direction = OUTGOING, !.message = infosds,
                 !.tsi = key, !.remark = "Welcome Sds to newuser"]

\* A length test that accepts every report.
CticnNeverShort(message) == FALSE

\* if (message.length() < 65)
CticnTooShort(message) == Len(message) < MinCticnLen

\* A search that finds no member.
NeverInQso(members, call) == FALSE

\* find(Qso.members.begin(), Qso.members.end(), call) != Qso.members.end()
InQso(members, call) == \E i \in 1..Len(members) : members[i] = call

handleCallBegin(s, message) ==
  IF CticnTooShort(message) THEN s
  ELSE
    LET s0 == squelchOpen(s, TRUE)
        h == Erase(message, 0, 8)
        o_tsi == Field(h, 5)
        d_tsi == Field(h, 12)
        t_ci == [instance |-> atoi(Field(h, 1)),
                 o_mcc |-> atoi(SubStr(o_tsi, 0, 4)),
                 o_mnc |-> atoi(SubStr(o_tsi, 4, 5)),
                 o_issi |-> atoi(SubStr(o_tsi, 9, 8)),
                 d_mcc |-> atoi(SubStr(d_tsi, 0, 4)),
                 d_mnc |-> atoi(SubStr(d_tsi, 4, 5)),
                 d_issi |-> atoi(SubStr(d_tsi, 9, 8)),
                 prio |-> atoi(DropFields(h, 12))]
        s1 == [s0 EXCEPT !.callinfo = MapPut(@, t_ci.o_issi, t_ci)]
        key == CallBeginKey(o_tsi)
    IN IF UserUnknown(s, key)
       THEN queueSds([s1 EXCEPT !.userdata = MapPut(@, key, Placeholder),
                                !.g_welcomes = Append(@, key)],
                     WelcomeSds(key))
       ELSE
         LET call == s.userdata[key].call
             inQso == InQso(s.Qso.members, call)
             s2 == [s1 EXCEPT !.Qso = [tsi |-> key,
                                       members |-> IF inQso THEN s.Qso.members
                                                   ELSE Append(s.Qso.members, call)]]
         IN processEvent(s2, "groupcall_begin")

handleTxGrant(s, txgrant) == processEvent(squelchOpen(s, TRUE), "tx_grant")

handleTransmissionEnd(s, message) == processEvent(squelchOpen(s, FALSE), "groupcall_end")

\* The text stored in the table DisconnectCause under the index code.
DisconnectCause(code) == <<"DisconnectCause", code>>

\* A release that never reports the subscriber as out of range.
ReleasedInRange(s) == FALSE

\* if (tetra_modem_sql->isOpen())
ReleasedOutOfRange(s) == s.sqlOpen

handleCallReleased(s, message) ==
  LET code == getNextVal(DropFields(message, 1))[1]
      s0 == [s EXCEPT !.g_released = Append(@, [sqlOpen |-> s.sqlOpen, code |-> code,
                                                 inTransmission |-> s.inTransmission])]
      s1 == IF ReleasedOutOfRange(s)
            THEN processEventArgs(squelchOpen(s0, FALSE), "out_of_range", <<code>>)
            ELSE processEventArgs(s0, "call_end", <<DisconnectCause(code)>>)
      \* sendAprs(userdata[Qso.tsi].call, ...): operator[] inserts a missing key
      s2 == [s1 EXCEPT !.userdata = MapTouch(@, s.Qso.tsi, NewUser),
                       !.talkgroup_up = FALSE,
                       !.Qso.members = <<>>,
                       !.inTransmission = FALSE,
                       !.g_setups = 0]
  IN checkSds(s2)

\* The commands of a call setup: the service definition, then the dial of
\* the group address.
CallSetup(gc_gssi) ==
  <<Command("AT+CTSDC=0,0,0,1,1,0,1,1,0,0,0", 0), Command("ATD", gc_gssi)>>

\* A call setup that does not mark the transmission.
CallNotMarked(s) == s

\* inTransmission = true
CallStarted(s) == [s EXCEPT !.inTransmission = TRUE]

initGroupCall(s, gc_gssi) ==
  processEventArgs(
    sendPei(sendPei([CallStarted(s) EXCEPT !.g_setups = @ + 1],
                    CallSetup(gc_gssi)[1]),
            CallSetup(gc_gssi)[2]),
    "init_group_call", <<gc_gssi>>)

\* A key-down that takes no group call to be up.
GroupCallNeverUp(s) == TRUE

\* if (!talkgroup_up)
GroupCallDown(s) == ~s.talkgroup_up

transmitterStateChange(s, is_transmitting) ==
  IF is_transmitting
  THEN IF GroupCallDown(s)
       THEN [initGroupCall(s, gssi) EXCEPT !.talkgroup_up = TRUE]
       ELSE sendPei(s, Command("AT+CTXD=1,1", 0))
  ELSE sendPei(s, Command("AT+CUTXC=1", 0))

(***************************************************************************)
(* Inbound SDS                                                             *)
(***************************************************************************)
\* pSDS.fromtsi = getTSI(getNextStr(sds)), the second field of the header
handleSds(s, sds) ==
  LET h == Erase(sds, 0, 9) IN
    [s EXCEPT !.fromtsi = getTSI(Field(h, 2), s.mcc, s.mnc)]

cfmSdsReceived(s, tsi) ==
  queueSds(s, [NewSds EXCEPT !.message = <<"O", "K">>, !.tsi = tsi,
                             !.direction = OUTGOING])

cfmTxtSdsReceived(s, message, tsi) ==
  IF Len(message) < 8 THEN s
  ELSE queueSds(s, [NewSds EXCEPT
                      !.message = <<"8", "2", "1", "0", "0", "0">> \o SubStr(message, 4, 2),
                      !.remark = "confirmation Sds", !.tsi = tsi,
                      !.type = ACK_SDS, !.direction = OUTGOING])

sendWelcomeSds(s, tsi, r4s) ==
  IF r4s \in DOMAIN sds_on_activity
  THEN queueSds(s, [NewSds EXCEPT !.direction = OUTGOING, !.tsi = tsi,
                                  !.remark = "welcome sds",
                                  !.message = sds_on_activity[r4s]])
  ELSE s

\* Byte order of the keys of userdata (keys are strings of digits).
RECURSIVE LexLess(_, _)
LexLess(a, b) ==
  IF a = <<>> THEN b # <<>>
  ELSE IF b = <<>> THEN FALSE
  ELSE IF a[1] = b[1] THEN LexLess(Tail(a), Tail(b))
  ELSE DigitVal(a[1]) < DigitVal(b[1])

MinKey(K) == CHOOSE x \in K : \A y \in K \ {x} : LexLess(x, y)

RECURSIVE SortedKeys(_)
SortedKeys(K) ==
  IF K = {} THEN <<>> ELSE <<MinKey(K)>> \o SortedKeys(K \ {MinKey(K)})

\* calcDistance between two stored positions
calcDistance(p1, p2) == IF p1 < p2 THEN p2 - p1 ELSE p1 - p2

\* Which notification sendInfoSds builds for one recipient, "" for none.
InfoSdsText(reason, distancediff) ==
  IF sds_when_dmo_on /\ reason = DMO_ON THEN "DMO=on"
  ELSE IF sds_when_dmo_off /\ reason = DMO_OFF THEN "DMO=off"
  ELSE IF sds_when_proximity /\ distancediff <= proximity_warning THEN "Dist"
  ELSE ""

\* The body of sendInfoSds's loop for the recipient stored under key.
sendInfoSdsTo(s, tsi, reason, key) ==
  LET u == s.userdata[key]
      txt == InfoSdsText(reason, calcDistance(s.userdata[tsi].pos, u.pos))
  IN IF key # <<>> /\ key # tsi /\ key # getTSI(s.issi, s.mcc, s.mnc)
        /\ difftime(s.now, u.sent_last_sds) >= time_between_sds
        /\ txt # ""
     THEN LET s1 == queueSds(processEvent(s, txt),
                             [NewSds EXCEPT !.tsi = key, !.message = <<"I">>,
                                            !.remark = "InfoSds",
                                            !.direction = OUTGOING, !.type = TEXT_SDS])
          IN [s1 EXCEPT !.userdata[key].sent_last_sds = s.now,
                        !.g_info = Append(@, [to |-> key, at |-> s.now])]
     ELSE s

RECURSIVE sendInfoSdsLoop(_, _, _, _)
sendInfoSdsLoop(s, tsi, reason, keys) ==
  IF keys = <<>> THEN s
  ELSE sendInfoSdsLoop(sendInfoSdsTo(s, tsi, reason, Head(keys)), tsi, reason, Tail(keys))

sendInfoSds(s, tsi, reason) ==
  IF tsi \notin DOMAIN s.userdata THEN s
  ELSE sendInfoSdsLoop(s, tsi, reason, SortedKeys(DOMAIN s.userdata))

\* handleLipSds: the reason for sending is the 8 bits that end the 76-bit
\* short location report that follows the protocol identifier 0A.
LipReason(sds) == hex2int(SubStr(sds, 19, 2))

\* handleLipSds: the reported position (the leading bits of the longitude).
LipPos(sds) == hex2int(SubStr(sds, 3, 2))

\* A payload attributed to nobody.
SdsMsgNoKey(s) == <<>>

\* The key under which handleSdsMsg looks the sender up and stores it.
SdsMsgKey(s) == s.fromtsi

handleSdsMsg(s, sds) ==
  LET tsi == SdsMsgKey(s) IN
  IF UserUnknown(s, tsi)
  THEN queueSds([s EXCEPT !.userdata = MapPut(@, tsi, Placeholder),
                          !.g_welcomes = Append(@, tsi)],
                WelcomeSds(tsi))
  ELSE
    LET m_sdstype == handleMessage(sds, s) IN
    CASE m_sdstype = LIP_SDS ->
           LET s1 == [s EXCEPT !.userdata[tsi].pos = LipPos(sds),
                               !.userdata[tsi].reasonforsending = LipReason(sds)]
               s2 == sendWelcomeSds(s1, tsi, LipReason(sds))
               s3 == sendInfoSds(s2, tsi, LipReason(sds))
           IN processEvent(processEvent(s3, "distance_rpt_ms"), "lip_sds_received")
      [] m_sdstype = STATE_SDS ->
           processEvent([s EXCEPT !.userdata[tsi].state = hex2int(sds)],
                        "state_sds_received")
      [] m_sdstype = TEXT_SDS ->
           processEvent(cfmTxtSdsReceived(s, sds, tsi), "text_sds_received")
      [] m_sdstype = SIMPLE_TEXT_SDS ->
           processEvent(cfmSdsReceived(s, tsi), "text_sds_received")
      [] m_sdstype = ACK_SDS -> processEvent(s, "sds_received_ack")
      [] m_sdstype = REGISTER_TSI ->
           processEvent(cfmSdsReceived(s, tsi), "register_tsi")
      [] m_sdstype = INVALID -> processEvent(s, "unknown_sds_received")
      [] OTHER -> s

(***************************************************************************)
(* Session controller                                                      *)
(***************************************************************************)
\* publishInfo("TetraUsers:info", event) with one element per entry of
\* userdata.
\* The element of the published array for one entry of userdata:
\* t_userinfo["tsi"] = iu->second.issi
UserInfo(user) == [tsi |-> user.issi, name |-> user.name, call |-> user.call]

RECURSIVE UserInfos(_, _)
UserInfos(users, keys) ==
  IF keys = <<>> THEN <<>>
  ELSE <<UserInfo(users[Head(keys)])>> \o UserInfos(users, Tail(keys))

sendUserInfo(s) ==
  [s EXCEPT !.g_published =
              Append(@, UserInfos(s.userdata, SortedKeys(DOMAIN s.userdata)))]

\* A completion that does not ask for the phase.
InitDoneAnyPhase(s) == TRUE

\* else if (peirequest == INIT)
InitDone(s) == s.peirequest = INIT

initPei(s) ==
  LET s1 == IF s.peirequest = AT_CMD_WAIT THEN [s EXCEPT !.breakTimer = TRUE] ELSE s IN
    IF s1.m_cmds # <<>>
    THEN [sendPei(s1, Command(Head(s1.m_cmds), 0))
            EXCEPT !.m_cmds = Tail(s1.m_cmds),
                   !.g_init = Append(@, [cmd |-> Head(s1.m_cmds),
                                         answered |-> s1.g_answered]),
                   !.g_answered = FALSE]
    ELSE IF InitDone(s1)
    THEN [sendUserInfo(processEvent(sendPei(s1, Command("AT+CNUMF?", 0)),
                                    "pei_init_finished"))
            EXCEPT !.peirequest = INIT_COMPLETE,
                   !.g_finished = Append(@, [phase |-> s1.peirequest,
                                             cmds |-> s1.m_cmds])]
    ELSE s1

handleCnumf(s, m_message) == [s EXCEPT !.peirequest = INIT_COMPLETE]

\* getAiMode: an event when the line is longer than 6 characters
getAiMode(s, aimode) == IF Len(aimode) > 6 THEN processEvent(s, "tetra_mode") ELSE s

\* handleCtdgr: an event when the report has exactly three commas
handleCtdgr(s, m_message) ==
  IF Cardinality({i \in 1..Len(m_message) : i > 8 /\ m_message[i] = ","}) = 3
  THEN processEvent(s, "dmo_gw_rpt") ELSE s

handleClvl(s, m_message) == processEvent(s, "audio_level")

\* The switch of handlePeiAnswer.
Dispatch(s, response, m_message) ==
  CASE response = OK ->
         LET s1 == [s EXCEPT !.peistate = OK] IN
           IF s1.new_sds /\ ~s1.inTransmission THEN checkSds(s1) ELSE s1
    [] response = ERROR -> [s EXCEPT !.peistate = ERROR]
    [] response = CNUMF -> handleCnumf(s, m_message)
    [] response = CALL_BEGIN -> handleCallBegin(s, m_message)
    [] response = TRANSMISSION_END -> handleTransmissionEnd(s, m_message)
    [] response = CALL_RELEASED -> handleCallReleased(s, m_message)
    [] response = SDS -> handleSds(s, m_message)
    [] response \in {ACK_SDS, TEXT_SDS, SIMPLE_TEXT_SDS, STATE_SDS, COMPLEX_SDS,
                     CONCAT_SDS, LIP_SDS} -> handleSdsMsg(s, m_message)
    [] response = CMGS -> handleCmgs(s, m_message)
    [] response = TRANSMISSION_GRANT -> handleTxGrant(s, m_message)
    [] response = OP_MODE -> getAiMode(s, m_message)
    [] response = CTDGR -> handleCtdgr(s, m_message)
    [] response = CLVL -> handleClvl(s, m_message)
    [] OTHER -> s

handlePeiAnswer(s, m_message) ==
  LET response == handleMessage(m_message, s)
      s1 == Dispatch([s EXCEPT !.g_handed = Append(@, m_message),
                               !.g_answered = @ \/ (s.g_init # <<>> /\ response \in {OK, ERROR})],
                     response, m_message)
  IN IF s1.peirequest = INIT /\ response \in {OK, ERROR} THEN initPei(s1) ELSE s1

(***************************************************************************)
(* Stream framer                                                           *)
(***************************************************************************)
\* One pass of the while loop: the segment before the first terminator is
\* handled unless it is empty, then erased together with the terminator.
FrameStep(s, found) ==
  LET s1 == IF found # 1 THEN handlePeiAnswer(s, SubSeq(s.peistream, 1, found - 1))
            ELSE s
  IN [s1 EXCEPT !.peistream = Erase(s.peistream, 0, found - 1 + 2)]

RECURSIVE FrameLoop(_)
FrameLoop(s) ==
  IF Find(s.peistream, CRLF) = 0 THEN s
  ELSE FrameLoop(FrameStep(s, Find(s.peistream, CRLF)))

\* A byte of value 0.
NUL == "NUL"

\* The text of a char*: the bytes before the first NUL.  The count passed
\* with buf is not used.
CString(buf) ==
  LET f == Find(buf, <<NUL>>) IN IF f = 0 THEN buf ELSE SubSeq(buf, 1, f - 1)

\* A framer that keeps no remainder between two chunks.
FrameReplace(stream, buf) == CString(buf)

\* peistream += buf
FrameAppend(stream, buf) == stream \o CString(buf)

onCharactersReceived(s, buf) ==
  FrameLoop([s EXCEPT !.comTimer = FALSE, !.peistream = FrameAppend(@, buf)])

(***************************************************************************)
(* Timers, injection, directory feed                                      *)
(***************************************************************************)
onComTimeout(s) ==
  [processEvent(s, "peiCom_timeout") EXCEPT !.peistate = TIMEOUT, !.comTimer = FALSE]

onPeiActivityTimeout(s) == [sendPei(s, Command("AT", 0)) EXCEPT !.peirequest = CHECK_AT]

onPeiBreakCommandTimeout(s) ==
  initPei([s EXCEPT !.peirequest = INIT, !.breakTimer = FALSE])

\* The target of an injected record: the text before the first comma.
PtyTsi(injmessage) == getNextStr(injmessage)[1]

\* buf holds count characters, of which the last is dropped.
sdsPtyReceived(s, buf) ==
  LET injmessage == SubSeq(buf, 1, Len(buf) - 1)
      type == Field(injmessage, 2)
  IN queueSds([s EXCEPT !.g_input = [tsi |-> Field(injmessage, 1), kind |-> type,
                                     payload |-> DropFields(injmessage, 2)]],
              [NewSds EXCEPT !.tsi = PtyTsi(injmessage),
                             !.message = DropFields(injmessage, 2),
                             !.direction = OUTGOING,
                             !.type = IF type = <<"T">> THEN TEXT ELSE RAW])

onDapnetMessage(s, tsi, message) ==
  queueSds([s EXCEPT !.g_input = [tsi |-> tsi, kind |-> <<"T">>, payload |-> message]],
           [NewSds EXCEPT !.tsi = tsi, !.remark = "DAPNET message",
                          !.message = message, !.direction = OUTGOING,
                          !.type = TEXT])

\* A time long after the end of the session.
LateTime == 900000000

\* What the members of the local User m_user that are never assigned may
\* hold: sent_last_sds is one of them.
Unassigned == {EpochTime, LateTime}

\* userdata[m_user.issi] = m_user for one element of the JSON array; stamp is
\* what the unassigned member sent_last_sds holds.
PublishedUser(t_userdata, stamp) ==
  [NewUser EXCEPT !.issi = t_userdata.tsi, !.name = t_userdata.name,
                  !.call = t_userdata.call, !.sent_last_sds = stamp]

RECURSIVE MergeUsers(_, _, _)
MergeUsers(ud, user_arr, stamp) ==
  IF user_arr = <<>> THEN ud
  ELSE MergeUsers(MapPut(ud, PublishedUser(Head(user_arr), stamp).issi,
                         PublishedUser(Head(user_arr), stamp)),
                  Tail(user_arr), stamp)

onPublishStateEvent(s, event_name, user_arr, stamp) ==
  IF event_name = "TetraUsers:info"
  THEN [s EXCEPT !.userdata = MergeUsers(@, user_arr, stamp)]
  ELSE s

(***************************************************************************)
(* Inputs: response lines of the radio, injected records, subscriber ids    *)
(***************************************************************************)
\* OK
L_OK ==
  <<"O", "K">>

\* +CME ERROR: 35
L_ERROR ==
  <<"+", "C", "M", "E", " ", "E", "R", "R", "O", "R", ":", " ", "3", "5">>

\* +CMGS: 0,4,65
L_CMGS_OK ==
  <<"+", "C", "M", "G", "S", ":", " ", "0", ",", "4", ",", "6", "5">>

\* +CMGS: 0,5,65
L_CMGS_FAILED ==
  <<"+", "C", "M", "G", "S", ":", " ", "0", ",", "5", ",", "6", "5">>

\* +CMGS: 1,5,65
L_CMGS_OTHER ==
  <<"+", "C", "M", "G", "S", ":", " ", "1", ",", "5", ",", "6", "5">>

\* +CTCR: 1,13
L_CTCR ==
  <<"+", "C", "T", "C", "R", ":", " ", "1", ",", "1", "3">>

\* +CTCR: 1,1
L_CTCR_USER ==
  <<"+", "C", "T", "C", "R", ":", " ", "1", ",", "1">>

\* +CTXG: 1,3,0,0,3,09011638300023404
L_CTXG ==
  <<"+", "C", "T", "X", "G", ":", " ", "1", ",", "3", ",", "0", ",", "0", ",", "3", ",", "0", "9", "0", "1", "1", "6", "3", "8", "3", "0", "0", "0", "2", "3", "4", "0", "4">>

\* +CDTXC: 1,0
L_CDTXC ==
  <<"+", "C", "D", "T", "X", "C", ":", " ", "1", ",", "0">>

\* +CNUMF: 6,09011638300023401
L_CNUMF ==
  <<"+", "C", "N", "U", "M", "F", ":", " ", "6", ",", "0", "9", "0", "1", "1", "6", "3", "8", "3", "0", "0", "0", "2", "3", "4", "0", "1">>

\* +CTICN: 1,0,0,5,09011638300023404,1,1,0,1,1,5,09011638300000001,0
L_CTICN_KNOWN ==
  <<"+", "C", "T", "I", "C", "N", ":", " ", "1", ",", "0", ",", "0", ",", "5", ",", "0", "9", "0", "1", "1", "6", "3", "8", "3", "0", "0", "0", "2", "3", "4", "0", "4", ",", "1", ",", "1", ",", "0", ",", "1", ",", "1", ",", "5", ",", "0", "9", "0", "1", "1", "6", "3", "8", "3", "0", "0", "0", "0", "0", "0", "0", "1", ",", "0">>

\* +CTICN: 1,0,0,5,09011638300023405,1,1,0,1,1,5,09011638300000001,0
L_CTICN_NEW ==
  <<"+", "C", "T", "I", "C", "N", ":", " ", "1", ",", "0", ",", "0", ",", "5", ",", "0", "9", "0", "1", "1", "6", "3", "8", "3", "0", "0", "0", "2", "3", "4", "0", "5", ",", "1", ",", "1", ",", "0", ",", "1", ",", "1", ",", "5", ",", "0", "9", "0", "1", "1", "6", "3", "8", "3", "0", "0", "0", "0", "0", "0", "0", "1", ",", "0">>

\* +CTICN: 12,0,0,5,9011638300023404,1,1,0,1,1,5,09011638300000001,0
L_CTICN_16 ==
  <<"+", "C", "T", "I", "C", "N", ":", " ", "1", "2", ",", "0", ",", "0", ",", "5", ",", "9", "0", "1", "1", "6", "3", "8", "3", "0", "0", "0", "2", "3", "4", "0", "4", ",", "1", ",", "1", ",", "0", ",", "1", ",", "1", ",", "5", ",", "0", "9", "0", "1", "1", "6", "3", "8", "3", "0", "0", "0", "0", "0", "0", "0", "1", ",", "0">>

\* +CTICN: 1,0,0,5,09011638300023404
L_CTICN_SHORT ==
  <<"+", "C", "T", "I", "C", "N", ":", " ", "1", ",", "0", ",", "0", ",", "5", ",", "0", "9", "0", "1", "1", "6", "3", "8", "3", "0", "0", "0", "2", "3", "4", "0", "4">>

\* +CTSDSR: 12,23404,0,23401,0,112
L_CTSDSR ==
  <<"+", "C", "T", "S", "D", "S", "R", ":", " ", "1", "2", ",", "2", "3", "4", "0", "4", ",", "0", ",", "2", "3", "4", "0", "1", ",", "0", ",", "1", "1", "2">>

\* +CTSDSR: 12,23405,0,23401,0,112
L_CTSDSR_NEW ==
  <<"+", "C", "T", "S", "D", "S", "R", ":", " ", "1", "2", ",", "2", "3", "4", "0", "5", ",", "0", ",", "2", "3", "4", "0", "1", ",", "0", ",", "1", "1", "2">>

\* 8204FF01476A
L_TEXT ==
  <<"8", "2", "0", "4", "F", "F", "0", "1", "4", "7", "6", "A">>

\* 0201476A
L_SIMPLE_TEXT ==
  <<"0", "2", "0", "1", "4", "7", "6", "A">>

\* 821000FF
L_ACK ==
  <<"8", "2", "1", "0", "0", "0", "F", "F">>

\* 8001
L_STATE ==
  <<"8", "0", "0", "1">>

\* 0A11223344556677880080
L_LIP_DMO_ON ==
  <<"0", "A", "1", "1", "2", "2", "3", "3", "4", "4", "5", "5", "6", "6", "7", "7", "8", "8", "0", "0", "8", "0">>

\* 0A11223344556677880070
L_LIP_DMO_OFF ==
  <<"0", "A", "1", "1", "2", "2", "3", "3", "4", "4", "5", "5", "6", "6", "7", "7", "8", "8", "0", "0", "7", "0">>

\* xyz
L_NOISE ==
  <<"x", "y", "z">>

\* 0901163830023401,T,Hello\n
R_PTY_16 ==
  <<"0", "9", "0", "1", "1", "6", "3", "8", "3", "0", "0", "2", "3", "4", "0", "1", ",", "T", ",", "H", "e", "l", "l", "o", "\n">>

\* 09011638300023404,R,8204\n
R_PTY_17 ==
  <<"0", "9", "0", "1", "1", "6", "3", "8", "3", "0", "0", "0", "2", "3", "4", "0", "4", ",", "R", ",", "8", "2", "0", "4", "\n">>

\* 09011638300023404
T_USER1 ==
  <<"0", "9", "0", "1", "1", "6", "3", "8", "3", "0", "0", "0", "2", "3", "4", "0", "4">>

\* 09011638300023405
T_USER2 ==
  <<"0", "9", "0", "1", "1", "6", "3", "8", "3", "0", "0", "0", "2", "3", "4", "0", "5">>

\* 23406
T_SHORT ==
  <<"2", "3", "4", "0", "6">>

(***************************************************************************)
(* Bounds of the model                                                     *)
(***************************************************************************)
MaxQueue == 2
MaxTries == 2
MaxTicks == 2
TickSecs == 1801
StartTime == 1
MaxUsers == 3
MaxWire == 4
MaxChunk == 2
MaxTsiSkip == 2

(***************************************************************************)
(* Initial state: the object after the constructor and initialize()        *)
(***************************************************************************)
\* TETRA_USERS: one configured user
ConfiguredUsers ==
  [k \in {T_USER1} |->
     [NewUser EXCEPT !.issi = k, !.call = "DL1ABC", !.name = "Adi",
                     !.sent_last_sds = mktimeZero]]

\* peistate and last_sdsinstance are not set by the constructor.
PeistateAtStart == {OK, ERROR, TIMEOUT, INVALID}
InstanceAtStart == {0, 255}

Constructed(cfgMcc, cfgMnc, cfgIssi, ps, inst) ==
  [mcc |-> initializeMcc(cfgMcc, cfgMnc), mnc |-> initializeMnc(cfgMnc),
   issi |-> cfgIssi, peistate |-> ps, peirequest |-> AT_CMD_WAIT,
   m_cmds |-> <<>>, peistream |-> <<>>, cmgs_received |-> TRUE,
   new_sds |-> FALSE, inTransmission |-> FALSE, talkgroup_up |-> FALSE,
   sqlOpen |-> FALSE, txOn |-> FALSE, sdsQueue |-> EmptyMap,
   pending_sds |-> NewSds, last_sdsinstance |-> inst,
   userdata |-> ConfiguredUsers, callinfo |-> EmptyMap, fromtsi |-> <<>>,
   Qso |-> [tsi |-> <<>>, members |-> <<>>], comTimer |-> FALSE,
   breakTimer |-> FALSE, now |-> StartTime, g_sent |-> <<>>,
   g_handed |-> <<>>, g_events |-> <<>>, g_drains |-> <<>>, g_gate |-> <<>>,
   g_cmgs |-> <<>>, g_pendingKey |-> 0, g_inflight |-> 0, g_peak |-> 0,
   g_txcount |-> EmptyMap, g_setups |-> 0, g_welcomes |-> <<>>,
   g_info |-> <<>>, g_input |-> <<>>, g_released |-> <<>>, g_init |-> <<>>,
   g_answered |-> FALSE,
   g_finished |-> <<>>,
   g_published |-> <<>>,
   g_queued |-> <<>>,
   ret |-> FALSE]

\* initialize(): m_cmds = initcmds; sendPei("\r\n"); peirequest = AT_CMD_WAIT;
\* initPei(); processEvent("startup")
initialize(s, initcmds) ==
  processEvent(initPei(sendPei([s EXCEPT !.m_cmds = initcmds], Command("\r\n", 0))),
               "startup")

Install(s, event) ==
  /\ mcc = s.mcc /\ mnc = s.mnc /\ issi = s.issi
  /\ peistate = s.peistate /\ peirequest = s.peirequest
  /\ m_cmds = s.m_cmds /\ peistream = s.peistream
  /\ cmgs_received = s.cmgs_received /\ new_sds = s.new_sds
  /\ inTransmission = s.inTransmission /\ talkgroup_up = s.talkgroup_up
  /\ sqlOpen = s.sqlOpen /\ txOn = s.txOn /\ sdsQueue = s.sdsQueue
  /\ pending_sds = s.pending_sds /\ last_sdsinstance = s.last_sdsinstance
  /\ userdata = s.userdata /\ callinfo = s.callinfo /\ fromtsi = s.fromtsi
  /\ Qso = s.Qso /\ comTimer = s.comTimer /\ breakTimer = s.breakTimer
  /\ now = s.now /\ lastEvent = event
  /\ g_sent = s.g_sent /\ g_handed = s.g_handed /\ g_events = s.g_events
  /\ g_drains = s.g_drains /\ g_gate = s.g_gate /\ g_cmgs = s.g_cmgs
  /\ g_pendingKey = s.g_pendingKey /\ g_inflight = s.g_inflight
  /\ g_peak = s.g_peak /\ g_txcount = s.g_txcount /\ g_setups = s.g_setups
  /\ g_welcomes = s.g_welcomes /\ g_info = s.g_info
  /\ g_input = s.g_input /\ g_released = s.g_released
  /\ g_init = s.g_init
  /\ g_answered = s.g_answered
  /\ g_finished = s.g_finished
  /\ g_published = s.g_published
  /\ g_queued = s.g_queued

InitSession(cfgMcc, cfgMnc, cfgIssi, initcmds) ==
  \E ps \in PeistateAtStart, inst \in InstanceAtStart :
    Install(initialize(Constructed(cfgMcc, cfgMnc, cfgIssi, ps, inst), initcmds),
            "initialize")

TsiIdle ==
  /\ tsiCfg = <<>> /\ tsiIn = <<>> /\ tsiOnce = <<>> /\ tsiTwice = <<>>
  /\ tsiPc = "idle"

FramerIdle == wire = <<>> /\ wireLines = <<>> /\ wireCuts = {}

LinkIdle == inbox = <<>>

ClsIdle == clsIn = <<>> /\ clsOut = 0 /\ clsPc = "idle"

(***************************************************************************)
(* Events                                                                  *)
(***************************************************************************)
Bounded(s) ==
  /\ Cardinality(DOMAIN s.sdsQueue) <= MaxQueue
  /\ \A k \in DOMAIN s.sdsQueue : s.sdsQueue[k].nroftries <= MaxTries
  /\ Cardinality(DOMAIN s.userdata) <= MaxUsers

Do(s, event) == Bounded(s) /\ Commit(s, event) /\ UNCHANGED <<tsiVars, framerVars, linkVars, clsVars>>

\* A chunk of bytes arrives on the serial port.
Receive(buf) ==
  /\ Do(onCharactersReceived(Cur, buf), "onCharactersReceived")

\* A complete response line arrives in one chunk.
ReceiveLine(line) == ~handleCallBeginThrows(line) /\ Receive(line \o CRLF)

KeyDown ==
  /\ ~txOn
  /\ Do(transmitterStateChange([Cur EXCEPT !.txOn = TRUE], TRUE), "transmitterStateChange")

KeyUp ==
  /\ txOn
  /\ Do(transmitterStateChange([Cur EXCEPT !.txOn = FALSE], FALSE), "transmitterStateChange")

ComTimeout == comTimer /\ Do(onComTimeout(Cur), "onComTimeout")

ActivityTimeout ==
  /\ Do(onPeiActivityTimeout(Cur), "onPeiActivityTimeout")

BreakTimeout == breakTimer /\ Do(onPeiBreakCommandTimeout(Cur), "onPeiBreakCommandTimeout")

Inject(buf) ==
  /\ Do(sdsPtyReceived(Cur, buf), "sdsPtyReceived")

Dapnet(tsi, message) ==
  /\ Do(onDapnetMessage(Cur, tsi, message), "onDapnetMessage")

Publish(user_arr) ==
  /\ \E stamp \in Unassigned :
       Do(onPublishStateEvent(Cur, "TetraUsers:info", user_arr, stamp),
          "onPublishStateEvent")

\* The clock advances.
Tick ==
  /\ now + TickSecs <= StartTime + MaxTicks * TickSecs
  /\ Commit([Cur EXCEPT !.now = @ + TickSecs], "tick")
  /\ UNCHANGED <<tsiVars, framerVars, linkVars, clsVars>>

(***************************************************************************)
(* Spec: the SDS delivery pipeline (queue, latch, confirmation reports)    *)
(***************************************************************************)
PipeLines == {L_OK, L_ERROR, L_CMGS_OK, L_CMGS_FAILED, L_CMGS_OTHER}

Init ==
  /\ InitSession(<<"9", "0", "1">>, <<"1", "6", "3", "8", "3">>, <<"2", "3", "4", "0", "1">>, <<>>)
  /\ TsiIdle /\ FramerIdle /\ LinkIdle /\ ClsIdle

Next ==
  \/ \E line \in PipeLines : ReceiveLine(line)
  \/ Inject(R_PTY_16)
  \/ ComTimeout
  \/ ActivityTimeout
  \/ BreakTimeout

Spec == Init /\ [][Next]_vars

\* C17: when an OK response is processed while the queue holds an unsent
\* outgoing entry and no local transmission is in progress, a drain is run;
\* if moreover the squelch is closed and no confirmation is outstanding, an
\* SDS command is sent while that OK is handled.
C17_DrainOnOk ==
  (/\ lastEvent = "onCharactersReceived" /\ g_handed = <<L_OK>>
   /\ ~inTransmission
   /\ \E k \in DOMAIN sdsQueue : SdsUnsent(sdsQueue[k]))
    => g_drains # <<>>

\* C18: the retry counter of every queue entry equals the number of SDS
\* commands sent for that entry; a drain that defers leaves it unchanged.
C18_RetryCounter ==
  \A k \in DOMAIN sdsQueue : sdsQueue[k].nroftries = TxCount(g_txcount, k)

SdsSends(sent) == Cardinality({i \in DOMAIN sent : IsSdsCommand(sent[i])})

\* C1: in every interleaving of enqueues, response lines and timer
\* expirations, no SDS send command is transmitted between the transmission
\* of one and the processing of the next +CMGS report: at most one outbound
\* SDS awaits confirmation at any time.
C1_SingleInFlight ==
  /\ g_peak <= 1
  /\ SdsSends(g_sent) <= 1
  /\ g_inflight = 1 => ~cmgs_received

\* One SDS awaits its report while another is queued unsent and the gate is
\* open.
C1_Witness ==
  /\ g_inflight = 1
  /\ SendGateOpen(Cur)
  /\ \E k \in DOMAIN sdsQueue : SdsUnsent(sdsQueue[k])

\* C2: when a +CMGS report with status failed matches the pending entry, the
\* queue entry's time of send is reset to 0, so that the next drain whose
\* gate is open transmits the same entry again (the drain run by the report
\* itself, if the gate is open then).
C2_Retry ==
  \A i \in DOMAIN g_cmgs :
    (/\ g_cmgs[i].matched /\ g_cmgs[i].state = SDS_SEND_FAILED
     /\ g_cmgs[i].outstanding /\ g_cmgs[i].key \in DOMAIN sdsQueue)
    => \/ sdsQueue[g_cmgs[i].key].tos = 0
       \/ \E j \in DOMAIN g_sent :
            IsSdsCommand(g_sent[j]) /\ g_sent[j].arg = g_cmgs[i].key

\* C6: after any +CMGS report, whatever its instance, its status and whether
\* it matches, cmgs_received is true at the start of the drain that follows.
C6_LatchRelease ==
  g_cmgs # <<>> => (g_drains # <<>> /\ g_drains[Len(g_drains)])

\* A report with status failed for another instance arrives while a send is
\* outstanding.
C6_Witness ==
  \E i \in DOMAIN g_cmgs :
    /\ g_cmgs[i].outstanding /\ ~g_cmgs[i].matched
    /\ g_cmgs[i].state = SDS_SEND_FAILED

(***************************************************************************)
(* SpecGate: the queue with calls, transmissions and the squelch           *)
(***************************************************************************)
GateLines == {L_OK, L_CMGS_OK, L_CTICN_KNOWN, L_CTCR, L_CTCR_USER}

NextGate ==
  \/ \E line \in GateLines : ReceiveLine(line)
  \/ Inject(R_PTY_16)
  \/ KeyDown
  \/ KeyUp

SpecGate == Init /\ [][NextGate]_vars

\* C3: whenever checkSds transmits an SDS send command, at that moment the
\* link health is OK, no transmission is in progress, the squelch is closed
\* and no confirmation is outstanding.
C3_SendGating ==
  /\ SdsSends(g_sent) = Len(g_gate)
  /\ \A i \in DOMAIN g_gate :
       /\ g_gate[i].peistate = OK /\ ~g_gate[i].inTransmission
       /\ ~g_gate[i].sqlOpen /\ g_gate[i].cmgs_received

\* An entry is transmitted by a drain after an earlier drain had to defer it.
C3_Witness == g_gate # <<>> /\ pending_sds.nroftries >= 2

\* The reason code of a +CTCR report: the number after the first comma.
ReleaseCode(line) == atoi(SubSeq(line, Find(line, <<",">>) + 1, Len(line)))

IsReleaseLine(line) == HasPrefix(line, <<"+", "C", "T", "C", "R", ":">>)

\* C12: processing a +CTCR report emits exactly one event: "out of range"
\* with the reason code of the report if the squelch is open when the report
\* is processed, and only then; otherwise "call end" with the cause text
\* stored for that code.
C12_ReleaseOutcome ==
  (lastEvent = "onCharactersReceived" /\ Len(g_handed) = 1 /\ IsReleaseLine(g_handed[1])) =>
    /\ Len(g_released) = 1
    /\ g_released[1].code = ReleaseCode(g_handed[1])
    /\ Len(g_events) = 1
    /\ g_events[1] = IF g_released[1].sqlOpen
                      THEN <<"out_of_range", ReleaseCode(g_handed[1])>>
                      ELSE <<"call_end", DisconnectCause(ReleaseCode(g_handed[1]))>>

\* A report with reason code 1 has been processed while the squelch was open.
C12_Witness ==
  /\ g_released # <<>> /\ g_released[1].sqlOpen
  /\ g_events = <<<<"out_of_range", 1>>>>

\* C13: a key-down sends the call setup (service definition, then dial of
\* the group address) only when no group call is marked up and the
\* continuation command otherwise, so that a +CTCR report is processed
\* between any two call setups.
C13_KeyDown ==
  /\ g_setups <= 1
  /\ (lastEvent = "transmitterStateChange" /\ txOn) =>
       \/ g_sent = CallSetup(gssi) /\ g_setups = 1 /\ talkgroup_up
       \/ g_sent = <<Command("AT+CTXD=1,1", 0)>>
  /\ (lastEvent = "transmitterStateChange" /\ ~txOn) =>
       g_sent = <<Command("AT+CUTXC=1", 0)>>

\* A key-down while the group call is up has sent the continuation command.
C13_Witness ==
  /\ lastEvent = "transmitterStateChange" /\ txOn /\ talkgroup_up
  /\ g_setups = 1 /\ g_sent = <<Command("AT+CTXD=1,1", 0)>>

\* C20: no SDS command is sent between a call setup by initGroupCall and the
\* processing of the next +CTCR report; processing a +CTCR report clears
\* inTransmission and talkgroup_up and then runs a drain, which reads the
\* cleared flag.
C20_CallSuppresses ==
  /\ g_setups > 0 => SdsSends(g_sent) = 0
  /\ (lastEvent = "onCharactersReceived" /\ Len(g_handed) = 1 /\ IsReleaseLine(g_handed[1])) =>
       /\ ~inTransmission /\ ~talkgroup_up
       /\ g_drains # <<>>
       /\ \A i \in DOMAIN g_gate : ~g_gate[i].inTransmission

\* A +CTCR report that ended a locally initiated call has been processed and
\* its drain has sent the SDS that was deferred during the call.
C20_Witness ==
  /\ lastEvent = "onCharactersReceived" /\ Len(g_handed) = 1 /\ IsReleaseLine(g_handed[1])
  /\ g_released # <<>> /\ g_released[1].inTransmission
  /\ SdsSends(g_sent) = 1 /\ pending_sds.nroftries >= 2

\* C35: after every handler inTransmission and talkgroup_up are equal; they
\* become true only in a key-down that sets a group call up, and false only
\* in the processing of a +CTCR report.
C35_FlagsTogether ==
  /\ [](inTransmission = talkgroup_up)
  /\ [][/\ (inTransmission' /\ ~inTransmission) =>
             /\ lastEvent' = "transmitterStateChange" /\ txOn'
             /\ g_sent' = CallSetup(gssi)
        /\ (inTransmission /\ ~inTransmission') =>
             /\ lastEvent' = "onCharactersReceived"
             /\ Len(g_handed') = 1 /\ IsReleaseLine(g_handed'[1])]_vars

\* A +CTCR report has cleared both flags of a call that a key-down had set
\* up, while the transmitter is still keyed.
C35_Witness ==
  /\ lastEvent = "onCharactersReceived" /\ g_handed = <<L_CTCR>> /\ txOn
  /\ g_released # <<>> /\ g_released[1].inTransmission
  /\ ~inTransmission /\ ~talkgroup_up

(***************************************************************************)
(* SpecCall: call reports, transmission reports and the local transmitter  *)
(***************************************************************************)
CallLines == {L_CTICN_KNOWN, L_CTICN_NEW, L_CTICN_SHORT, L_CTCR, L_CTXG, L_CDTXC}

NextCall ==
  \/ \E line \in CallLines : ReceiveLine(line)
  \/ KeyDown

SpecCall == Init /\ [][NextCall]_vars

\* The last event handled exactly this line.
Handled(line) == lastEvent = "onCharactersReceived" /\ g_handed = <<line>>

\* C26: a +CTICN line shorter than the minimum length leaves the squelch,
\* the CallInfo table, the directory, the Qso record and the SDS queue
\* unchanged and emits no event.
C26_ShortDropped ==
  [][Handled(L_CTICN_SHORT)' =>
       /\ sqlOpen' = sqlOpen /\ callinfo' = callinfo /\ userdata' = userdata
       /\ Qso' = Qso /\ sdsQueue' = sdsQueue
       /\ g_events' = <<>>]_vars

\* A short +CTICN line has been handled during a call: the squelch is still
\* open and the caller of the call is still the only member.
C26_Witness ==
  /\ Handled(L_CTICN_SHORT) /\ sqlOpen /\ Len(Qso.members) = 1
  /\ DOMAIN callinfo # {}

\* C28: after a +CDTXC report is processed the squelch is closed, and after
\* a +CTXG report is processed it is open.
C28_SquelchFollows ==
  /\ Handled(L_CDTXC) => ~sqlOpen
  /\ Handled(L_CTXG) => sqlOpen

\* C29: the member list of the Qso holds no callsign twice, a call report
\* leaves it unchanged or appends one callsign that was not in it, and after
\* a +CTCR report is processed it is empty.
C29_Members ==
  /\ [](/\ \A i, j \in DOMAIN Qso.members : Qso.members[i] = Qso.members[j] => i = j
        /\ \A line \in CallLines : (Handled(line) /\ IsReleaseLine(line)) => Qso.members = <<>>)
  /\ [][\/ Qso.members' = Qso.members
        \/ Qso.members' = <<>>
        \/ /\ Len(Qso.members') = Len(Qso.members) + 1
           /\ SubSeq(Qso.members', 1, Len(Qso.members)) = Qso.members
           /\ ~InQso(Qso.members, Qso.members'[Len(Qso.members')])]_vars

\* A caller already in the list has called again after a second caller was
\* added.
C29_Witness ==
  /\ Handled(L_CTICN_KNOWN)
  /\ Qso.members = <<"DL1ABC", "NoCall">>

(***************************************************************************)
(* SpecAck: inbound text SDS and their acknowledgement                     *)
(***************************************************************************)
AckLines == {L_CTSDSR, L_CTSDSR_NEW, L_TEXT, L_SIMPLE_TEXT, L_CMGS_OK}

NextAck == \E line \in AckLines : ReceiveLine(line)

SpecAck == Init /\ [][NextAck]_vars

\* The step has appended exactly one entry to the queue: an outgoing SDS to
\* the sender of the SDS received.
AckQueued ==
  LET key == Cardinality(DOMAIN sdsQueue) + 1 IN
    /\ DOMAIN sdsQueue' = DOMAIN sdsQueue \cup {key}
    /\ key \notin DOMAIN sdsQueue
    /\ sdsQueue'[key].direction = OUTGOING
    /\ sdsQueue'[key].tsi = fromtsi

\* C30: every inbound full-text payload enqueues exactly one SDS to its
\* sender whose payload is 821000 followed by the message reference (the
\* third byte) of the payload received, and every inbound simple-text payload
\* enqueues exactly one SDS to its sender.
C30_TextAck ==
  [][/\ Handled(L_TEXT)' =>
          /\ AckQueued
          /\ sdsQueue'[Cardinality(DOMAIN sdsQueue) + 1].message
               = <<"8", "2", "1", "0", "0", "0">> \o SubSeq(L_TEXT, 5, 6)
     /\ Handled(L_SIMPLE_TEXT)' => AckQueued]_vars

(***************************************************************************)
(* SpecSds: inbound SDS headers and payloads of every sub-type             *)
(***************************************************************************)
\* 0C01476A
L_CONCAT ==
  <<"0", "C", "0", "1", "4", "7", "6", "A">>

\* 0401476A
L_WAP ==
  <<"0", "4", "0", "1", "4", "7", "6", "A">>

SdsLines == {L_CTSDSR, L_CTSDSR_NEW, L_ACK, L_STATE, L_CONCAT, L_WAP, L_OK}

NextSds == \E line \in SdsLines : ReceiveLine(line)

SpecSds == Init /\ [][NextSds]_vars

\* C31: processing an acknowledgement payload appends nothing to the SDS
\* queue and transmits no command, whoever the sender is.
C31_AckSilent ==
  [][Handled(L_ACK)' => (sdsQueue' = sdsQueue /\ g_sent' = <<>>)]_vars

\* The events raised by the last handler.
Raised == {g_events[i][1] : i \in DOMAIN g_events}

\* The position and state fields of the directory.
PosState(users) == [k \in DOMAIN users |-> <<users[k].pos, users[k].state>>]

\* C32: a payload line whose sub-type has no handler of its own
\* (concatenated, WAP) raises the event unknown_sds_received, enqueues
\* nothing and leaves the position and state fields of the directory as they
\* were.
C32_UnknownSurfaced ==
  [][(Handled(L_CONCAT)' \/ Handled(L_WAP)') =>
       /\ "unknown_sds_received" \in Raised'
       /\ sdsQueue' = sdsQueue
       /\ PosState(userdata') = PosState(userdata)]_vars

\* The sender addresses of the two header lines, as getTSI stores them.
FromKnown == getTSI(<<"2", "3", "4", "0", "4">>, mcc, mnc)
FromNew == getTSI(<<"2", "3", "4", "0", "5">>, mcc, mnc)

\* The step is the handling of a header line that stores sender tsi.
HeaderStored(line, tsi) ==
  Handled(line)' =>
    /\ fromtsi' = tsi
    /\ sdsQueue' = sdsQueue /\ userdata' = userdata /\ g_sent' = <<>>

\* The step is the handling of a state payload for the sender stored last:
\* its directory entry takes the state, or, when it has none, an entry is
\* created for it and an SDS to it is enqueued; no other entry changes.
PayloadAttributed ==
  Handled(L_STATE)' =>
    /\ fromtsi' = fromtsi
    /\ \A k \in DOMAIN userdata \ {fromtsi} :
         k \in DOMAIN userdata' /\ userdata'[k] = userdata[k]
    /\ DOMAIN userdata' = DOMAIN userdata \cup {fromtsi}
    /\ IF fromtsi \in DOMAIN userdata
       THEN userdata'[fromtsi].state = hex2int(L_STATE) /\ sdsQueue' = sdsQueue
       ELSE AckQueued

\* C36: a payload line is attributed to the sender stored by the header line
\* processed last, whatever lines were processed in between (no other line
\* changes the stored sender); the header line itself enqueues nothing and
\* changes no directory entry.
C36_Attribution ==
  [][/\ HeaderStored(L_CTSDSR, FromKnown)
     /\ HeaderStored(L_CTSDSR_NEW, FromNew)
     /\ PayloadAttributed
     /\ (\E line \in {L_ACK, L_CONCAT, L_WAP, L_OK} : Handled(line)') =>
          fromtsi' = fromtsi]_vars

\* A state payload has been stored for the second sender while the first
\* sender is in the directory with no state.
C36_Witness ==
  /\ Handled(L_STATE)
  /\ fromtsi = FromNew /\ FromNew # FromKnown
  /\ {FromKnown, FromNew} \subseteq DOMAIN userdata
  /\ userdata[FromNew].state = hex2int(L_STATE)
  /\ userdata[FromKnown].state = 0

(***************************************************************************)
(* SpecClock: the queue while the system clock is advanced and set back    *)
(***************************************************************************)
\* time(NULL) reads the system clock, which an administrator or a time
\* service may set back: here to the time of the start.
ClockBack ==
  /\ now > StartTime
  /\ Commit([Cur EXCEPT !.now = StartTime], "clock")
  /\ UNCHANGED <<tsiVars, framerVars, linkVars, clsVars>>

ClockLines == {L_OK, L_CMGS_OK}

NextClock ==
  \/ \E line \in ClockLines : ReceiveLine(line)
  \/ Inject(R_PTY_16)
  \/ Tick
  \/ ClockBack

SpecClock == Init /\ [][NextClock]_vars

\* C34: at every call of queueSds the key it chooses, the size of the queue
\* plus one, is not a key of the queue, so the new entry is inserted.
C34_FreshKey == \A i \in DOMAIN g_queued : ~g_queued[i].taken

(***************************************************************************)
(* SpecAge: the queue while the clock advances                             *)
(***************************************************************************)
AgeLines == {L_OK, L_ERROR, L_CMGS_OK}

NextAge ==
  \/ \E line \in AgeLines : ReceiveLine(line)
  \/ Inject(R_PTY_16)
  \/ Tick

SpecAge == Init /\ [][NextAge]_vars

\* Sent more than SdsMaxAge seconds before t.
Stale(e, t) == e.tos # 0 /\ t - e.tos > SdsMaxAge

\* The keys at which the last drain stopped: an entry it sent or deferred.
DrainStops ==
  {k \in DOMAIN sdsQueue : sdsQueue[k].tos = 0 \/ (g_gate # <<>> /\ k = g_pendingKey)}

\* C4: after a drain no entry that the drain visited and that was sent more
\* than 3600 seconds ago remains in the queue.
C4_Purge ==
  (g_drains # <<>> /\ g_drains[Len(g_drains)]) =>
    \A k \in DOMAIN sdsQueue :
      (\A j \in DrainStops : k < j) => ~Stale(sdsQueue[k], now)

(***************************************************************************)
(* SpecLive: the queue under fair arrival of responses and timer events    *)
(***************************************************************************)
\* The radio writes a response line.
Arrive(line) ==
  /\ inbox = <<>>
  /\ inbox' = line
  /\ UNCHANGED <<sessVars, tsiVars, framerVars, clsVars>>

ArriveOk ==
  /\ Arrive(L_OK)

ArriveError ==
  /\ Arrive(L_ERROR)

\* The radio answers an SDS send command.
ArriveCmgs ==
  /\ ~cmgs_received
  /\ Arrive(L_CMGS_OK)

\* The session after the line was handled is stored and the port is empty.
Delivered(s) ==
  /\ Bounded(s)
  /\ Commit(s, "onCharactersReceived")
  /\ inbox' = <<>>
  /\ UNCHANGED <<tsiVars, framerVars, clsVars>>

\* The line is read from the serial port.
Deliver ==
  /\ inbox # <<>>
  /\ Delivered(onCharactersReceived(Cur, inbox \o CRLF))


NextLive ==
  \/ ArriveOk
  \/ ArriveError
  \/ ArriveCmgs
  \/ Deliver
  \/ Inject(R_PTY_16)
  \/ ActivityTimeout

\* OK responses keep arriving, every SDS send command is answered, the
\* activity timer keeps firing.
SpecLive ==
  /\ Init /\ [][NextLive]_vars
  /\ WF_vars(ArriveOk) /\ WF_vars(ArriveCmgs) /\ WF_vars(ActivityTimeout)

Calm == peistate = OK /\ ~inTransmission /\ ~sqlOpen

Queued(k) == k \in DOMAIN sdsQueue /\ sdsQueue[k].direction = OUTGOING

Transmitted(k) == k \in DOMAIN sdsQueue /\ sdsQueue[k].tos # 0

\* C5: if from some point on the link health is OK, no transmission is in
\* progress and the squelch is closed, while OK responses keep arriving,
\* every SDS send command is answered and every line that arrives is read,
\* then every OUTGOING entry appended by queueSds is eventually transmitted.
C5_Delivery ==
  (<>[]Calm /\ []<>(inbox = <<>>)) =>
    \A k \in 1..MaxQueue : [](Queued(k) => <>Transmitted(k))

(***************************************************************************)
(* The reference layout of an address                                      *)
(***************************************************************************)
\* The layout of a 17-digit address: country code, network code, subscriber.
RefShort(x, cfgMcc, cfgMnc) == ZeroPad(cfgMcc, 4) \o ZeroPad(cfgMnc, 5) \o ZeroPad(x, 8)

RefMccLen(x) == IF x[1] = "0" THEN 4 ELSE 3

RefLong(x) ==
  ZeroPad(SubSeq(x, 1, RefMccLen(x)), 4)
    \o ZeroPad(SubSeq(x, RefMccLen(x) + 1, Len(x) - 8), 5)
    \o SubSeq(x, Len(x) - 7, Len(x))

RefTSI(x, cfgMcc, cfgMnc) ==
  IF Len(x) < 9 THEN RefShort(x, cfgMcc, cfgMnc) ELSE RefLong(x)

\* A long form holds a country code, at most five digits of network code and
\* eight digits of subscriber number.
ValidTsiInput(x) ==
  /\ IsDigits(x) /\ Len(x) >= 1 /\ Len(x) <= 17
  /\ Len(x) >= 9 => /\ Len(x) >= RefMccLen(x) + 8
                    /\ Len(x) <= RefMccLen(x) + 13

(***************************************************************************)
(* SpecDir: the directory and the targets of queued SDS                    *)
(***************************************************************************)
DirLines == {L_CTICN_NEW, L_CTCR, L_CTSDSR_NEW, L_TEXT}

DirRecords == {R_PTY_16}

DirPublished == {<<[tsi |-> T_SHORT, name |-> "Cy", call |-> "DL3QRS"]>>}

NextDir ==
  \/ \E line \in DirLines : ReceiveLine(line)
  \/ \E buf \in DirRecords : Inject(buf)
  \/ Dapnet(T_SHORT, <<"H", "i">>)
  \/ \E user_arr \in DirPublished : Publish(user_arr)

SpecDir == Init /\ [][NextDir]_vars

IsTsi17(x) == Len(x) = 17 /\ IsDigits(x)

\* C10: in every reachable state every key of userdata and every target of a
\* queued SDS is a string of exactly 17 digits.
C10_Keys ==
  /\ \A k \in DOMAIN userdata : IsTsi17(k)
  /\ \A k \in DOMAIN sdsQueue : IsTsi17(sdsQueue[k].tsi)

\* The entry stored by the last call of queueSds.
LastQueued == sdsQueue[Cardinality(DOMAIN sdsQueue)]

\* C11: a record TSI,KIND,PAYLOAD of the injection channel, or a pair of the
\* pager gateway, leaves as the newest queue entry an OUTGOING SDS of kind
\* TEXT when KIND is T and RAW otherwise, whose payload is PAYLOAD and whose
\* target is the 17-digit normal form of the TSI field.
C11_Injection ==
  lastEvent \in {"sdsPtyReceived", "onDapnetMessage"} =>
    /\ Cardinality(DOMAIN sdsQueue) \in DOMAIN sdsQueue
    /\ LastQueued.direction = OUTGOING
    /\ LastQueued.type = (IF g_input.kind = <<"T">> THEN TEXT ELSE RAW)
    /\ LastQueued.message = g_input.payload
    /\ IsTsi17(LastQueued.tsi)
    /\ LastQueued.tsi = RefTSI(g_input.tsi, mcc, mnc)

\* The subscriber a response line refers to: the caller of a +CTICN report
\* that is long enough to be parsed, the sender of an SDS payload; <<"-">>
\* for any other line.
Referenced(line) ==
  IF handleMessage(line, Cur) = CALL_BEGIN /\ Len(line) >= MinCticnLen
  THEN Field(Erase(line, 0, 8), 5)
  ELSE IF handleMessage(line, Cur) \in {ACK_SDS, TEXT_SDS, SIMPLE_TEXT_SDS, STATE_SDS,
                                        COMPLEX_SDS, CONCAT_SDS, LIP_SDS}
  THEN fromtsi
  ELSE <<"-">>

\* The step in which the single line handed over refers to a subscriber who
\* is not in the directory.
FirstContact ==
  /\ lastEvent' = "onCharactersReceived" /\ Len(g_handed') = 1
  /\ Referenced(g_handed'[1]) # <<"-">>
  /\ Referenced(g_handed'[1]) \notin DOMAIN userdata

\* What a first contact leaves behind: the placeholder in the directory and
\* one more queue entry, the welcome SDS for that subscriber.
Vivified ==
  LET tsi == Referenced(g_handed'[1])
      key == Cardinality(DOMAIN sdsQueue) + 1
  IN /\ tsi \in DOMAIN userdata'
     /\ userdata'[tsi].call = "NoCall" /\ userdata'[tsi].name = "NoName"
     /\ DOMAIN sdsQueue' = DOMAIN sdsQueue \cup {key}
     /\ key \notin DOMAIN sdsQueue
     /\ sdsQueue'[key].tsi = tsi /\ sdsQueue'[key].message = infosds
     /\ sdsQueue'[key].direction = OUTGOING
     /\ g_welcomes' = Append(g_welcomes, tsi)

InitPeiLists == {<<>>, <<"AT+CTOM=1", "AT+CTSP=1,3,131">>}

InitSetup ==
  /\ \E initcmds \in InitPeiLists :
       InitSession(<<"9", "0", "1">>, <<"1", "6", "3", "8", "3">>, <<"2", "3", "4", "0", "1">>, initcmds)
  /\ TsiIdle /\ FramerIdle /\ LinkIdle /\ ClsIdle

\* The radio writes a line that is no response of its vocabulary.
ArriveNoise ==
  /\ Arrive(L_NOISE)

NextInit ==
  \/ ArriveOk
  \/ ArriveError
  \/ ArriveNoise
  \/ Deliver
  \/ ComTimeout
  \/ ActivityTimeout
  \/ BreakTimeout

\* The radio answers with OK again and again.
SpecInit ==
  /\ InitSetup /\ [][NextInit]_vars
  /\ SF_vars(ArriveOk)

SetupSent == [i \in DOMAIN g_init |-> g_init[i].cmd]

\* C21: the setup commands are sent in their configured order, each once,
\* and between two consecutive ones an OK or ERROR response was processed.
C21_SetupCycle ==
  /\ SetupSent \o m_cmds \in InitPeiLists
  /\ \A i \in DOMAIN g_init : i > 1 => g_init[i].answered

IsFinished(e) == e = <<"pei_init_finished">>

\* C22: "pei_init_finished" is emitted only by an initPei that found the
\* command list empty and the phase INIT, in the same event as the query
\* AT+CNUMF?, the publication of the user directory and the change of the
\* phase to INIT_COMPLETE, and at most once in a session.
C22_FinishedOnce ==
  /\ Len(g_finished) <= 1
  /\ \A i \in DOMAIN g_finished :
       g_finished[i].phase = INIT /\ g_finished[i].cmds = <<>>
  /\ Cardinality({i \in DOMAIN g_events : IsFinished(g_events[i])})
       = (IF g_sent # <<>> /\ g_sent[Len(g_sent)] = Command("AT+CNUMF?", 0) THEN 1 ELSE 0)
  /\ (\E i \in DOMAIN g_events : IsFinished(g_events[i])) =>
       /\ Len(g_finished) = 1
       /\ Len(g_published) = 1
       /\ Len(g_published[1]) = Cardinality(DOMAIN userdata)
       /\ peirequest = INIT_COMPLETE /\ m_cmds = <<>>

\* The completion was emitted after both setup commands had been sent.
C22_Witness ==
  /\ \E i \in DOMAIN g_events : IsFinished(g_events[i])
  /\ Len(SetupSent) = 2 /\ peirequest = INIT_COMPLETE

\* C23: if OK responses keep arriving, every line that arrives is read and
\* the break-command timer expires once it is enabled, then all setup
\* commands are eventually sent and the phase eventually becomes
\* INIT_COMPLETE, whatever other timers expire in between.
C23_Completes ==
  ([]<>(inbox = <<>>) /\ []<>(~breakTimer)) =>
    <>(m_cmds = <<>> /\ peirequest = INIT_COMPLETE)

\* The event handled one line and the line matches no pattern of the table.
Unparsable(handed) == Len(handed) = 1 /\ Matching(handed[1]) = {}

\* C25: processing a complete line that matches no classifier pattern leaves
\* the link health, the initialization phase, the SDS queue, the directory,
\* the Qso record and the squelch unchanged and sends no command.
C25_NoChange ==
  [][(inbox # <<>> /\ inbox' = <<>> /\ Unparsable(g_handed')) =>
       /\ peistate' = peistate /\ peirequest' = peirequest
       /\ sdsQueue' = sdsQueue /\ userdata' = userdata
       /\ Qso' = Qso /\ sqlOpen' = sqlOpen
       /\ g_sent' = <<>>]_vars

(***************************************************************************)
(* SpecPublish: the directory published at the end of the initialisation   *)
(***************************************************************************)
PublishLines == {L_OK, L_CTICN_NEW, L_CTSDSR_NEW, L_STATE}

NextPublish ==
  \/ \E line \in PublishLines : ReceiveLine(line)
  \/ \E user_arr \in DirPublished : Publish(user_arr)
  \/ BreakTimeout

SpecPublish == InitSetup /\ [][NextPublish]_vars

\* The records of a published array.
Records(user_arr) == {user_arr[j] : j \in DOMAIN user_arr}

\* C37: every record published by sendUserInfo carries in its field tsi the
\* key under which the user is stored, so that the keys of the published
\* records, and the keys of a directory that ingests them through
\* onPublishStateEvent, are the keys of userdata.
C37_KeysCarried ==
  \A i \in DOMAIN g_published :
    /\ {e.tsi : e \in Records(g_published[i])} = DOMAIN userdata
    /\ DOMAIN MergeUsers(EmptyMap, g_published[i], EpochTime) = DOMAIN userdata

(***************************************************************************)
(* SpecInfo: location reports, the directory feed and the clock            *)
(***************************************************************************)
InfoLines == {L_CTSDSR, L_LIP_DMO_OFF}

InfoPublished == {<<[tsi |-> T_USER2, name |-> "Cy", call |-> "DL3QRS"]>>}

NextInfo ==
  \/ \E line \in InfoLines : ReceiveLine(line)
  \/ \E user_arr \in InfoPublished : Publish(user_arr)
  \/ Tick

SpecInfo == Init /\ [][NextInfo]_vars

\* C15: two info SDS that sendInfoSds enqueues for the same recipient are at
\* least time_between_sds seconds apart, whatever is processed in between.
C15_Interval ==
  \A i, j \in DOMAIN g_info :
    (i < j /\ g_info[i].to = g_info[j].to) =>
      g_info[j].at - g_info[i].at >= time_between_sds

(***************************************************************************)
(* SpecClassify: handleMessage applied to one line                         *)
(***************************************************************************)
ClassifyTails == {<<>>, <<"1">>, <<"0", "0">>}

\* Every pattern's fixed text followed by nothing, a digit or two digits, and
\* lines chosen for the patterns with a character class.
ClassifyLines ==
  {mre[i].pat \o tail : i \in 1..Len(mre), tail \in ClassifyTails}
    \cup {L_LIP_DMO_OFF, L_NOISE, <<"8", "0", "0", "2">>, <<"F", "F", "F", "F">>,
          <<"8", "0", "0", "G">>, <<"A", "T">>,
          <<"+", "C", "T", "O", "M", ":", " ", "6", "\r">>}

InitClassify ==
  /\ InitSession(<<"9", "0", "1">>, <<"1", "6", "3", "8", "3">>, <<"2", "3", "4", "0", "1">>, <<>>)
  /\ TsiIdle /\ FramerIdle /\ LinkIdle
  /\ clsIn \in ClassifyLines /\ clsOut = 0 /\ clsPc = "start"

\* clsOut = handleMessage(clsIn)
Classify ==
  /\ clsPc = "start"
  /\ clsOut' = handleMessage(clsIn, Cur)
  /\ clsPc' = "done"
  /\ UNCHANGED <<clsIn, sessVars, tsiVars, framerVars, linkVars>>

NextClassify == Classify

SpecClassify == InitClassify /\ [][NextClassify]_vars

\* C16: a line that matches no pattern of the table is classified as the
\* current link health, which is OK, ERROR or TIMEOUT; a line that matches a
\* pattern is classified as the kind of a pattern it matches.
C16_Fallback ==
  clsPc = "done" =>
    /\ Matching(clsIn) = {} => clsOut = peistate /\ clsOut \in {OK, ERROR, TIMEOUT}
    /\ Matching(clsIn) # {} => \E i \in Matching(clsIn) : clsOut = mre[i].kind

\* Four hexadecimal digits of which the first is 8 to F.
IsStateCode(line) ==
  /\ Len(line) = 4 /\ AllHex(line)
  /\ line[1] \in {"8", "9", "A", "B", "C", "D", "E", "F"}

\* C27: no line matches patterns of two different kinds, and every line of
\* four hexadecimal digits that starts with 8 to F is classified as a state
\* code.
C27_Exclusive ==
  clsPc = "done" =>
    /\ \A i, j \in Matching(clsIn) : mre[i].kind = mre[j].kind
    /\ IsStateCode(clsIn) => clsOut = STATE_SDS

(***************************************************************************)
(* SpecFramer: a byte stream cut into chunks                               *)
(***************************************************************************)
FrameBytes == {"x", CR, LF, NUL}

Chunks == UNION {[1..n -> FrameBytes] : n \in 1..MaxChunk}

InitFramer ==
  /\ InitSession(<<"9", "0", "1">>, <<"1", "6", "3", "8", "3">>, <<"2", "3", "4", "0", "1">>, <<>>)
  /\ TsiIdle /\ FramerIdle /\ LinkIdle /\ ClsIdle

\* The session after onCharactersReceived(buf) is stored, and the chunk, the
\* place of the cut and the lines handed to handlePeiAnswer are recorded.
Framed(s, buf) ==
  /\ Bounded(s)
  /\ Commit(s, "onCharactersReceived")
  /\ wire' = wire \o buf
  /\ wireLines' = wireLines \o s.g_handed
  /\ wireCuts' = wireCuts \cup {Len(wire)}
  /\ UNCHANGED <<tsiVars, linkVars, clsVars>>

\* The serial port delivers the next chunk of the stream.
Chunk(buf) ==
  /\ Len(wire) + Len(buf) <= MaxWire
  /\ Framed(onCharactersReceived(Cur, buf), buf)

NextFramer == \E buf \in Chunks : Chunk(buf)

SpecFramer == InitFramer /\ [][NextFramer]_vars

\* The non-empty segments of stream that end in CR LF, in order.
RECURSIVE RefLines(_)
RefLines(stream) ==
  IF Find(stream, CRLF) = 0 THEN <<>>
  ELSE (IF Find(stream, CRLF) = 1 THEN <<>>
        ELSE <<SubSeq(stream, 1, Find(stream, CRLF) - 1)>>)
       \o RefLines(SubSeq(stream, Find(stream, CRLF) + 2, Len(stream)))

HasNul(stream) == \E i \in DOMAIN stream : stream[i] = NUL

RECURSIVE AfterLast(_)
AfterLast(stream) ==
  IF Find(stream, CRLF) = 0 THEN stream
  ELSE AfterLast(SubSeq(stream, Find(stream, CRLF) + 2, Len(stream)))

\* The buffer holds no terminator and no empty line was handed over.
FramerClean ==
  /\ Find(peistream, CRLF) = 0
  /\ \A i \in DOMAIN wireLines : wireLines[i] # <<>>

TimeoutChunks == {<<"x">>, <<CR>>, <<LF>>, CRLF}

\* The serial port delivers some bytes while the unterminated remainder is
\* short.
Incoming(buf) ==
  /\ Len(peistream) + Len(buf) <= MaxWire
  /\ Receive(buf)

NextTimeout ==
  \/ \E buf \in TimeoutChunks : Incoming(buf)
  \/ ComTimeout
  \/ ActivityTimeout

\* The command timer expires when it is left enabled, and the link-activity
\* timer keeps expiring.
SpecTimeout ==
  /\ InitFramer /\ [][NextTimeout]_vars
  /\ WF_vars(ComTimeout) /\ WF_vars(ActivityTimeout)

\* C24: after a command was written by sendPei, a complete line is processed
\* or the command timeout sets the link health to TIMEOUT, whatever bytes
\* arrive in the meantime.
C24_Timeout ==
  [](g_sent # <<>> =>
       <>(g_handed # <<>> \/ (lastEvent = "onComTimeout" /\ peistate = TIMEOUT)))

(***************************************************************************)
(* SpecTsi: getTSI applied to an address, and to its own result            *)
(***************************************************************************)
\* 09011638300023404
TSI_A ==
  <<"0", "9", "0", "1", "1", "6", "3", "8", "3", "0", "0", "0", "2", "3", "4", "0", "4">>

\* 09010000100023404
TSI_B ==
  <<"0", "9", "0", "1", "0", "0", "0", "0", "1", "0", "0", "0", "2", "3", "4", "0", "4">>

\* 90116383000234041
TSI_C ==
  <<"9", "0", "1", "1", "6", "3", "8", "3", "0", "0", "0", "2", "3", "4", "0", "4", "1">>

\* 26200001012345678
TSI_D ==
  <<"2", "6", "2", "0", "0", "0", "0", "1", "0", "1", "2", "3", "4", "5", "6", "7", "8">>

\* The addresses offered to getTSI: a bare subscriber number, and the pieces
\* of the four numbers above that start within the first MaxTsiSkip + 1 digits.
TsiInputs ==
  {T_SHORT} \cup
  UNION {{SubSeq(p, i, j) : i \in 1..(MaxTsiSkip + 1), j \in 1..Len(p)} \ {<<>>} :
         p \in {TSI_A, TSI_B, TSI_C, TSI_D}}

\* MCC and MNC as written in the configuration file.
TsiConfigs ==
  { <<<<"9", "0", "1">>, <<"1", "6", "3", "8", "3">>>>,
    <<<<"0", "9", "0", "1">>, <<"1", "6", "3", "8", "3">>>>,
    <<<<"9", "0", "1">>, <<"0", "0", "0", "0", "1">>>>,
    <<<<"2", "6", "2">>, <<"1">>>> }

InitTsi ==
  /\ tsiCfg \in TsiConfigs
  /\ Install(initialize(Constructed(tsiCfg[1], tsiCfg[2], <<"2", "3", "4", "0", "1">>,
                                    OK, 0), <<>>), "initialize")
  /\ tsiIn \in TsiInputs
  /\ tsiOnce = <<>> /\ tsiTwice = <<>> /\ tsiPc = "start"
  /\ FramerIdle /\ LinkIdle /\ ClsIdle

\* getTSI(tsiIn).  A call that writes past the end of is[18] has no defined
\* result.
Normalize ==
  /\ tsiPc = "start"
  /\ tsiPc' = IF getTSIOverflows(tsiIn) THEN "undefined" ELSE "once"
  /\ tsiOnce' = IF getTSIOverflows(tsiIn) THEN <<>> ELSE getTSI(tsiIn, mcc, mnc)
  /\ UNCHANGED <<tsiCfg, tsiIn, tsiTwice, sessVars, framerVars, linkVars, clsVars>>

\* getTSI(getTSI(tsiIn))
Renormalize ==
  /\ tsiPc = "once"
  /\ tsiPc' = IF getTSIOverflows(tsiOnce) THEN "undefined" ELSE "twice"
  /\ tsiTwice' = IF getTSIOverflows(tsiOnce) THEN <<>> ELSE getTSI(tsiOnce, mcc, mnc)
  /\ UNCHANGED <<tsiCfg, tsiIn, tsiOnce, sessVars, framerVars, linkVars, clsVars>>

NextTsi ==
  \/ Normalize
  \/ Renormalize

SpecTsi == InitTsi /\ [][NextTsi]_vars

\* C8: for every valid address x and every valid configuration,
\* getTSI(getTSI(x)) = getTSI(x).
C8_Idempotent ==
  (tsiPc = "twice" /\ ValidTsiInput(tsiIn)) => tsiTwice = tsiOnce

\* C9: getTSI returns the reference layout (country code padded to 4 digits,
\* network code padded to 5, subscriber number of 8 digits), 17 digits long.
C9_Layout ==
  (tsiPc \in {"once", "twice"} /\ ValidTsiInput(tsiIn)) =>
    /\ tsiOnce = RefTSI(tsiIn, tsiCfg[1], tsiCfg[2])
    /\ Len(tsiOnce) = 17 /\ IsDigits(tsiOnce)

====
